---- MODULE Spec2Model ----
(***************************************************************************)
(* A model of the extraction-and-reconciliation core of scanner.py.        *)
(*                                                                         *)
(* Every Python str is a sequence of one-character strings, so that        *)
(* str.lower(), str.upper(), substring tests, regular-expression matching  *)
(* and the lexicographic comparison used by list.sort() are computed on    *)
(* characters, as the interpreter computes them.  The empty str is <<>>.   *)
(***************************************************************************)
EXTENDS Integers, Sequences, FiniteSets, TLC

VARIABLES
    messages,        \* main: the messages search_flights returned, in order
    i,               \* main: position of the parse loop in messages (1-based)
    flights,         \* main: the working list `flights`
    actual_flights,  \* main: records that passed the real-signal filter
    named_flights,   \* main: records that passed the passenger-name filter
    seen_pnrs,       \* main: dict identity key -> currently kept record
    deduped,         \* main: output list of the deduplication loop
    di,              \* main: position of the deduplication loop in flights
    pc,              \* main: the statement main() is at
    text,            \* extract_pnr: the argument `text`
    pat,             \* extract_pnr: position of the loop in `patterns` (1-based)
    pnr_result,      \* extract_pnr: the value returned
    xpc,             \* the statement the extractor that runs is at
    sender,          \* extract_airline: the argument `sender`
    flight_result,   \* extract_flight_number: the value returned
    airport_codes,   \* extract_airport_codes: from_code and to_code
    airline_result   \* extract_airline: the value returned

main_vars == <<messages, i, flights, actual_flights, named_flights, seen_pnrs,
               deduped, di, pc>>

\* the variables of the extractors other than extract_pnr
field_vars == <<sender, flight_result, airport_codes, airline_result>>

extractor_vars == <<text, pat, pnr_result, xpc, field_vars>>

vars == <<main_vars, extractor_vars>>

(***************************************************************************)
(* Characters and strings                                                  *)
(***************************************************************************)
LowerLetters == <<"a", "b", "c", "d", "e", "f", "g", "h", "i", "j", "k", "l", "m", "n", "o", "p", "q", "r", "s", "t", "u", "v", "w", "x", "y", "z">>
UpperLetters == <<"A", "B", "C", "D", "E", "F", "G", "H", "I", "J", "K", "L", "M", "N", "O", "P", "Q", "R", "S", "T", "U", "V", "W", "X", "Y", "Z">>
Digits == <<"0", "1", "2", "3", "4", "5", "6", "7", "8", "9">>

\* The modelled part of ASCII, in code-point order.
CharOrder ==
    <<"\t">> \o <<" ", "#", "-", ".">> \o Digits \o <<":", ">", "@">> \o UpperLetters \o <<"_">> \o LowerLetters

Range(s) == {s[k] : k \in DOMAIN s}

Chars == Range(CharOrder)

\* ord(c), as far as comparisons need it: the rank of c in code-point order
OrdTable == [c \in Chars |-> CHOOSE k \in DOMAIN CharOrder : CharOrder[k] = c]

Ord(c) == OrdTable[c]

\* str.lower() and str.upper() on one character
LowerTable ==
    [c \in Chars |->
        IF c \in Range(UpperLetters)
        THEN LowerLetters[CHOOSE k \in DOMAIN UpperLetters : UpperLetters[k] = c]
        ELSE c]

UpperTable ==
    [c \in Chars |->
        IF c \in Range(LowerLetters)
        THEN UpperLetters[CHOOSE k \in DOMAIN LowerLetters : LowerLetters[k] = c]
        ELSE c]

LowerChar(c) == LowerTable[c]

UpperChar(c) == UpperTable[c]

StrLower(s) == [k \in DOMAIN s |-> LowerChar(s[k])]

StrUpper(s) == [k \in DOMAIN s |-> UpperChar(s[k])]

\* Python `sub in s`
StrIn(sub, s) ==
    \E p \in 0..(Len(s) - Len(sub)) :
        \A k \in 1..Len(sub) : s[p + k] = sub[k]

\* Python `a < b` on str: lexicographic by code point
RECURSIVE StrLess(_, _)
StrLess(a, b) ==
    IF b = <<>> THEN FALSE
    ELSE IF a = <<>> THEN TRUE
    ELSE IF Head(a) = Head(b) THEN StrLess(Tail(a), Tail(b))
    ELSE Ord(Head(a)) < Ord(Head(b))

\* Python truthiness of a str
Truthy(s) == s # <<>>

BoolInt(b) == IF b THEN 1 ELSE 0

(***************************************************************************)
(* Records: the dict parse_email returns (scanner.py 474-484)              *)
(***************************************************************************)
FieldNames ==
    {"Date", "Airline", "Flight Number", "From", "To", "PNR/Booking Ref",
     "Email Subject", "Email Date"}

\* Variant of ParseEmail: "Date" is the extracted date, without the fallback
\* to the received date.
ParseEmailNoFallback(msg) ==
    [k \in FieldNames \cup {"_has_name"} |->
        CASE k = "Date" -> msg.flight_date
          [] k = "Airline" -> msg.airline
          [] k = "Flight Number" -> msg.flight_number
          [] k = "From" -> msg.from_code
          [] k = "To" -> msg.to_code
          [] k = "PNR/Booking Ref" -> msg.pnr
          [] k = "Email Subject" -> msg.subject
          [] k = "Email Date" -> msg.email_date
          [] OTHER -> msg.has_passenger_name]

\* parse_email, lines 474-484: the record assembled from the extractors'
\* results and the headers of one message.  `flight_date or email_date`
\* is the extracted date unless it is empty.
ParseEmail(msg) ==
    [k \in FieldNames \cup {"_has_name"} |->
        CASE k = "Date" ->
                IF Truthy(msg.flight_date) THEN msg.flight_date ELSE msg.email_date
          [] k = "Airline" -> msg.airline
          [] k = "Flight Number" -> msg.flight_number
          [] k = "From" -> msg.from_code
          [] k = "To" -> msg.to_code
          [] k = "PNR/Booking Ref" -> msg.pnr
          [] k = "Email Subject" -> msg.subject
          [] k = "Email Date" -> msg.email_date
          [] OTHER -> msg.has_passenger_name]

\* Variant: what a failed parse_email would leave behind if the loop kept
\* it, the headers without any extracted field.
ParseEmailPartial(msg) ==
    [k \in FieldNames \cup {"_has_name"} |->
        CASE k = "Email Subject" -> msg.subject
          [] k = "Email Date" -> msg.email_date
          [] k = "_has_name" -> FALSE
          [] OTHER -> <<>>]

\* Variant of TryParse: a failed message leaves its partial record.
TryParseKeepPartial(fl, msg) ==
    IF msg.fails THEN Append(fl, ParseEmailPartial(msg))
    ELSE Append(fl, ParseEmail(msg))

\* main, lines 507-511: one iteration of the parse loop.  parse_email
\* raises before it returns anything, so nothing is appended.
TryParse(fl, msg) ==
    IF msg.fails THEN fl
    ELSE Append(fl, ParseEmail(msg))

(***************************************************************************)
(* Filters (scanner.py 513-545)                                            *)
(***************************************************************************)
EXCLUDE_SUBJECTS == <<
    <<"h", "o", "t", "e", "l", " ", "b", "o", "o", "k", "i", "n", "g">>, <<"b", "u", "s", " ", "b", "o", "o", "k", "i", "n", "g">>, <<"b", "u", "s", " ", "t", "i", "c", "k", "e", "t">>, <<"c", "r", "e", "d", "i", "t", " ", "c", "a", "r", "d">>,
    <<"a", "c", "c", "o", "u", "n", "t", " ", "s", "u", "m", "m", "a", "r", "y">>, <<"s", "a", "v", "i", "n", "g", "s", " ", "o", "f", " ", "r", "s">>, <<"m", "i", "s", "s", "e", "d", " ", "o", "u", "t", " ", "o", "n", " ", "s", "a", "v", "i", "n", "g">>,
    <<"m", "e", "s", "s", "a", "g", "e", " ", "f", "r", "o", "m", " ", "o", "u", "r", " ", "c", "e", "o">>, <<"m", "e", "s", "s", "a", "g", "e", " ", "f", "r", "o", "m", " ", "t", "h", "e", " ", "c", "e", "o">>,
    <<"d", "i", "s", "c", "o", "u", "n", "t", "s", " ", "i", "n", " ", "d", "u", "b", "a", "i">>, <<"b", "i", "g", " ", "d", "i", "s", "c", "o", "u", "n", "t", "s">>, <<"c", "r", "e", "d", "i", "t", " ", "n", "o", "t", "e">>,
    <<"t", "a", "x", " ", "i", "n", "v", "o", "i", "c", "e">>, <<"g", "s", "t", " ", "i", "n", "v", "o", "i", "c", "e">>, <<"v", "r", "l", " ", "t", "r", "a", "v", "e", "l", "s">>,
    <<"c", "r", "e", "d", "i", "t", " ", "c", "a", "r", "d", " ", "c", "o", "m", "m", "u", "n", "i", "c", "a", "t", "i", "o", "n">>, <<"v", "o", "u", "c", "h", "e", "r", " ", "w", "o", "r", "t", "h">>,
    <<"c", "h", "a", "l", "l", "e", "n", "g", "e", " ", "#">>, <<"i", "n", "t", "e", "r", "m", "i", "l", "e", "s", " ", "c", "r", "e", "d", "i", "t", "e", "d">> >>

\* Variant of IsExcluded: the subject is not lower-cased first.
IsExcludedCaseSensitive(subject) ==
    \E n \in DOMAIN EXCLUDE_SUBJECTS : StrIn(EXCLUDE_SUBJECTS[n], subject)

\* _is_excluded, lines 523-525
IsExcluded(subject) ==
    LET s == StrLower(subject)
    IN  \E n \in DOMAIN EXCLUDE_SUBJECTS : StrIn(EXCLUDE_SUBJECTS[n], s)

\* lines 527-529
NonExcluded(fl) == SelectSeq(fl, LAMBDA f : ~IsExcluded(f["Email Subject"]))

\* Variant of HasSignal: one airport code is enough.
HasSignalEitherEnd(f) ==
    \/ Truthy(f["Flight Number"])
    \/ Truthy(f["PNR/Booking Ref"])
    \/ Truthy(f["From"])
    \/ Truthy(f["To"])

\* Variant of HasSignal: all of the signals are required.
HasSignalAll(f) ==
    /\ Truthy(f["Flight Number"])
    /\ Truthy(f["PNR/Booking Ref"])
    /\ (Truthy(f["From"]) /\ Truthy(f["To"]))

\* the condition of lines 533-534
HasSignal(f) ==
    \/ Truthy(f["Flight Number"])
    \/ Truthy(f["PNR/Booking Ref"])
    \/ (Truthy(f["From"]) /\ Truthy(f["To"]))

\* lines 532-535
ActualFlights(fl) == SelectSeq(fl, HasSignal)

\* the condition of line 539
HasName(f) == f["_has_name"]

\* line 539
NamedFlights(fl) == SelectSeq(fl, HasName)

\* lines 544-545: del f["_has_name"]
DelHasName(f) == [k \in DOMAIN f \ {"_has_name"} |-> f[k]]

\* The dicts of actual_flights and named_flights are the same objects: the
\* del of lines 544-545 shows in every list that holds a named record.
DelWhereNamed(fl) ==
    [k \in DOMAIN fl |-> IF HasName(fl[k]) THEN DelHasName(fl[k]) ELSE fl[k]]

(***************************************************************************)
(* Regular expressions, as re.search evaluates them                        *)
(*                                                                         *)
(* A piece of a pattern, tried at position p of text t, yields the         *)
(* positions at which it can end, in the order in which the backtracking   *)
(* matcher tries them (greedy: longest first; alternatives left to right). *)
(* A position is the index of the next character to read.                  *)
(***************************************************************************)
\* the sequences of ss one after the other (halving keeps the evaluation shallow)
RECURSIVE Concat(_)
Concat(ss) ==
    IF ss = <<>> THEN <<>>
    ELSE IF Len(ss) = 1 THEN ss[1]
    ELSE Concat(SubSeq(ss, 1, Len(ss) \div 2))
            \o Concat(SubSeq(ss, Len(ss) \div 2 + 1, Len(ss)))

\* a sequence given as a function, as a tuple
Tuple(f) == f \o <<>>

\* the ends of a piece tried at each of several positions in turn: endss[k]
\* are its ends at the k-th position
Each(endss) == Concat(Tuple(endss))

\* \s (the modelled alphabet has two whitespace characters)
IsSpace(c) == c \in {" ", "\t"}

\* [A-Z0-9] under re.IGNORECASE
AlnumChars == Range(UpperLetters) \cup Range(LowerLetters) \cup Range(Digits)

IsAlnum(c) == c \in AlnumChars

\* \w
WordChars == AlnumChars \cup {"_"}

IsWord(c) == c \in WordChars

\* a literal under re.IGNORECASE; lit is written in lower case
Lit(t, p, lit) ==
    IF /\ p + Len(lit) - 1 <= Len(t)
       /\ \A k \in DOMAIN lit : LowerChar(t[p + k - 1]) = lit[k]
    THEN <<p + Len(lit)>>
    ELSE <<>>

RECURSIVE SpaceRun(_, _)
SpaceRun(t, p) == IF p <= Len(t) /\ IsSpace(t[p]) THEN 1 + SpaceRun(t, p + 1) ELSE 0

\* \s*
WsStar(t, p) == Tuple([k \in 1..(SpaceRun(t, p) + 1) |-> p + SpaceRun(t, p) + 1 - k])

\* \s* continuing from each of the positions ps
WsStarEach(t, ps) == Each([k \in DOMAIN ps |-> WsStar(t, ps[k])])

\* x? for a piece whose ends at p are `ends`
Opt(ends, p) == ends \o <<p>>

\* lit? continuing from each of the positions ps
OptLitEach(t, ps, lit) == Each([k \in DOMAIN ps |-> Opt(Lit(t, ps[k], lit), ps[k])])

WordAt(t, p) == p >= 1 /\ p <= Len(t) /\ IsWord(t[p])

\* \b at p
Boundary(t, p) == WordAt(t, p - 1) # WordAt(t, p)

RECURSIVE AlnumRun(_, _)
AlnumRun(t, p) == IF p <= Len(t) /\ IsAlnum(t[p]) THEN 1 + AlnumRun(t, p + 1) ELSE 0

\* \b([A-Z0-9]{lo,hi})\b at p: the <<first, end>> of each way to match the group
Token(t, p, lo, hi) ==
    IF ~Boundary(t, p) THEN <<>>
    ELSE LET lens == [k \in 1..(hi - lo + 1) |-> hi + 1 - k]
             ok == SelectSeq(lens, LAMBDA n : n <= AlnumRun(t, p) /\ Boundary(t, p + n))
         IN  Tuple([k \in DOMAIN ok |-> <<p, p + ok[k]>>])

\* the token continuing from each of the positions ps
TokenEach(t, ps, lo, hi) == Each([k \in DOMAIN ps |-> Token(t, ps[k], lo, hi)])

(***************************************************************************)
(* Deduplication and sort (scanner.py 547-587)                             *)
(***************************************************************************)
\* _richness, lines 548-557
_richness(f) ==
    BoolInt(Truthy(f["Flight Number"]))
    + BoolInt(Truthy(f["From"]))
    + BoolInt(Truthy(f["To"]))
    + BoolInt(Truthy(f["Airline"]))
    + BoolInt(Truthy(f["Date"]))
    + BoolInt(Truthy(f["PNR/Booking Ref"]))

\* The keys of seen_pnrs are a str (the PNR, line 562) or a 2-tuple of str
\* (line 565).  In Python a str never equals a tuple; the tag keeps the two
\* kinds of key apart here as well.
PnrKey(f) == <<"str", f["PNR/Booking Ref"]>>

FlightKey(f) == <<"tuple", f["Flight Number"], f["Date"]>>

\* Variant of NoIdentity: the empty pair is a key like any other.
NeverNoIdentity(key) == FALSE

\* line 566: key == ("", "")
NoIdentity(key) == key = <<"tuple", <<>>, <<>>>>

\* Variant of Richer: a tie replaces the kept record too.
RicherOrEqual(f, kept) == _richness(f) >= _richness(kept)

\* lines 571 and 578: _richness(f) > _richness(seen_pnrs[key])
Richer(f, kept) == _richness(f) > _richness(kept)

\* list.remove(x): drops the first element equal to x (and raises ValueError
\* when there is none: Merge reports that as `raised`)
RECURSIVE ListRemove(_, _)
ListRemove(l, x) ==
    IF l = <<>> THEN <<>>
    ELSE IF Head(l) = x THEN Tail(l)
    ELSE <<Head(l)>> \o ListRemove(Tail(l), x)

\* Variant of RemoveAndAppend: the new record takes the place of the old.
ReplaceInPlace(ded, kept, f) ==
    [k \in DOMAIN ded |->
        IF ded[k] = kept /\ \A m \in 1..(k - 1) : ded[m] # kept THEN f ELSE ded[k]]

\* lines 572+574 and 579+581: deduped.remove(kept); deduped.append(f)
RemoveAndAppend(ded, kept, f) == Append(ListRemove(ded, kept), f)

\* lines 568-574 and 575-581: the same three-way branch on a key
Merge(seen, ded, key, f) ==
    IF key \notin DOMAIN seen
    THEN [seen_pnrs |-> (key :> f) @@ seen, deduped |-> Append(ded, f),
          raised |-> FALSE]
    ELSE IF Richer(f, seen[key])
    THEN [seen_pnrs |-> (key :> f) @@ seen,
          deduped |-> RemoveAndAppend(ded, seen[key], f),
          raised |-> \A k \in DOMAIN ded : ded[k] # seen[key]]
    ELSE [seen_pnrs |-> seen, deduped |-> ded, raised |-> FALSE]

\* lines 562-581: the body of the deduplication loop for one record
DedupBody(seen, ded, f) ==
    IF ~Truthy(f["PNR/Booking Ref"])
    THEN IF NoIdentity(FlightKey(f))
         THEN [seen_pnrs |-> seen, deduped |-> Append(ded, f), raised |-> FALSE]
         ELSE Merge(seen, ded, FlightKey(f), f)
    ELSE Merge(seen, ded, PnrKey(f), f)

\* the empty dict of line 559
EmptyDict == [k \in {} |-> <<>>]

\* lines 559-581 as a whole, on a list of records
RECURSIVE DedupFrom(_, _, _)
DedupFrom(seen, ded, fl) ==
    IF fl = <<>> THEN ded
    ELSE LET r == DedupBody(seen, ded, Head(fl))
         IN  DedupFrom(r.seen_pnrs, r.deduped, Tail(fl))

Dedup(fl) == DedupFrom(EmptyDict, <<>>, fl)

\* Variant of SortKey: no substitute for an empty date.
EmptyFirstKey(f) == f["Date"]

\* line 587: the sort key, f["Date"] if f["Date"] else "9999-99-99"
SortKey(f) == IF Truthy(f["Date"]) THEN f["Date"] ELSE <<"9", "9", "9", "9", "-", "9", "9", "-", "9", "9">>

\* Variant of Insert: an unstable sort, which puts an element before the
\* elements of equal key.
InsertBeforeEqual(sorted, f) ==
    LET n == Cardinality({k \in DOMAIN sorted : StrLess(SortKey(sorted[k]), SortKey(f))})
    IN  SubSeq(sorted, 1, n) \o <<f>> \o SubSeq(sorted, n + 1, Len(sorted))

\* list.sort is stable: an element goes after every element already placed
\* whose key is not greater than its own.
Insert(sorted, f) ==
    LET n == Cardinality({k \in DOMAIN sorted : ~StrLess(SortKey(f), SortKey(sorted[k]))})
    IN  SubSeq(sorted, 1, n) \o <<f>> \o SubSeq(sorted, n + 1, Len(sorted))

RECURSIVE SortInto(_, _)
SortInto(sorted, fl) ==
    IF fl = <<>> THEN sorted ELSE SortInto(Insert(sorted, Head(fl)), Tail(fl))

\* line 587: flights.sort(key=...)
SortByDate(fl) == SortInto(<<>>, fl)

(***************************************************************************)
(* extract_pnr (scanner.py 409-431)                                        *)
(***************************************************************************)
\* (?:no\.?|number|#|:)?
Qualifier(t, p) ==
    Opt(OptLitEach(t, Lit(t, p, <<"n", "o">>), <<".">>)
            \o Lit(t, p, <<"n", "u", "m", "b", "e", "r">>) \o Lit(t, p, <<"#">>) \o Lit(t, p, <<":">>),
        p)

QualifierEach(t, ps) == Each([k \in DOMAIN ps |-> Qualifier(t, ps[k])])

\* \s*:?\s*\b([A-Z0-9]{lo,hi})\b continuing from each of the positions ps
ColonTokenEach(t, ps, lo, hi) ==
    TokenEach(t, WsStarEach(t, OptLitEach(t, WsStarEach(t, ps), <<":">>)), lo, hi)

\* line 412: (?:PNR|pnr|Pnr)\s*(?:no\.?|number|#|:)?\s*:?\s*\b([A-Z0-9]{5,8})\b
PnrPatternAt(t, s) ==
    ColonTokenEach(t,
        QualifierEach(t,
            WsStarEach(t, Lit(t, s, <<"p", "n", "r">>) \o Lit(t, s, <<"p", "n", "r">>) \o Lit(t, s, <<"p", "n", "r">>))),
        5, 8)

\* (?:ref|reference|id|code|no)
BookingKind(t, p) ==
    Lit(t, p, <<"r", "e", "f">>) \o Lit(t, p, <<"r", "e", "f", "e", "r", "e", "n", "c", "e">>) \o Lit(t, p, <<"i", "d">>)
        \o Lit(t, p, <<"c", "o", "d", "e">>) \o Lit(t, p, <<"n", "o">>)

BookingKindEach(t, ps) == Each([k \in DOMAIN ps |-> BookingKind(t, ps[k])])

\* booking\s*(?:ref|reference|id|code|no)
BookingLabel(t, s) == BookingKindEach(t, WsStarEach(t, Lit(t, s, <<"b", "o", "o", "k", "i", "n", "g">>)))

\* (?:no|number|code|#)
ConfirmationKind(t, p) ==
    Lit(t, p, <<"n", "o">>) \o Lit(t, p, <<"n", "u", "m", "b", "e", "r">>) \o Lit(t, p, <<"c", "o", "d", "e">>) \o Lit(t, p, <<"#">>)

ConfirmationKindEach(t, ps) == Each([k \in DOMAIN ps |-> ConfirmationKind(t, ps[k])])

\* confirmation\s*(?:no|number|code|#)
ConfirmationLabel(t, s) ==
    ConfirmationKindEach(t, WsStarEach(t, Lit(t, s, <<"c", "o", "n", "f", "i", "r", "m", "a", "t", "i", "o", "n">>)))

\* line 413: (?:booking\s*(?:ref|reference|id|code|no)|confirmation\s*(?:no|number|code|#))
\*           \s*:?\s*\b([A-Z0-9]{5,8})\b
BookingPatternAt(t, s) ==
    ColonTokenEach(t, BookingLabel(t, s) \o ConfirmationLabel(t, s), 5, 8)

\* line 414: (?:reference|ref\.?)\s*(?:no\.?|number|#|:)?\s*:?\s*\b([A-Z0-9]{6})\b
ReferencePatternAt(t, s) ==
    ColonTokenEach(t,
        QualifierEach(t,
            WsStarEach(t, Lit(t, s, <<"r", "e", "f", "e", "r", "e", "n", "c", "e">>) \o OptLitEach(t, Lit(t, s, <<"r", "e", "f">>), <<".">>))),
        6, 6)

\* lines 411-415: the list `patterns`; the matches of patterns[n - 1] that
\* start at s
NumPatterns == 3

PatternAt(t, n, s) ==
    CASE n = 1 -> PnrPatternAt(t, s)
      [] n = 2 -> BookingPatternAt(t, s)
      [] n = 3 -> ReferencePatternAt(t, s)

\* re.search scans the start positions from the left and takes the first
\* match the backtracking finds there: <<>> for None, else <<group(1)>>
RECURSIVE SearchFrom(_, _, _)
SearchFrom(t, n, s) ==
    IF s > Len(t) + 1 THEN <<>>
    ELSE IF PatternAt(t, n, s) # <<>>
    THEN <<SubSeq(t, Head(PatternAt(t, n, s))[1], Head(PatternAt(t, n, s))[2] - 1)>>
    ELSE SearchFrom(t, n, s + 1)

\* re.search(patterns[n - 1], text, re.IGNORECASE), line 426
PnrSearch(t, n) == SearchFrom(t, n, 1)

\* lines 417-424
pnr_stopwords == {
    <<"N", "U", "M", "B", "E", "R">>, <<"R", "E", "F", "E", "R", "E", "N", "C", "E">>, <<"B", "O", "O", "K", "I", "N", "G">>, <<"C", "O", "N", "F", "I", "R", "M">>, <<"D", "E", "T", "A", "I", "L">>, <<"D", "E", "T", "A", "I", "L", "S">>,
    <<"F", "L", "I", "G", "H", "T">>, <<"S", "T", "A", "T", "U", "S">>, <<"C", "A", "N", "C", "E", "L">>, <<"C", "H", "A", "N", "G", "E">>, <<"U", "P", "D", "A", "T", "E">>, <<"E", "R", "E", "N", "C", "E">>,
    <<"R", "E", "N", "C", "E">>, <<"U", "M", "B", "E", "R">>, <<"A", "T", "I", "O", "N">>, <<"T", "I", "C", "K", "E", "T">>, <<"T", "R", "A", "V", "E", "L">>,
    <<"P", "L", "E", "A", "S", "E">>, <<"R", "E", "F", "U", "N", "D">>, <<"A", "M", "O", "U", "N", "T">>, <<"T", "O", "T", "A", "L">>, <<"P", "R", "I", "C", "E">>, <<"C", "H", "A", "R", "G", "E">>,
    <<"E", "M", "A", "I", "L">>, <<"I", "S", "S", "U", "E">>, <<"B", "O", "A", "R", "D">>, <<"C", "H", "E", "C", "K">>, <<"P", "R", "I", "N", "T">>, <<"V", "A", "L", "I", "D">>,
    <<"N", "U", "M", "E", "R", "I", "C">>, <<"S", "T", "R", "I", "N", "G">>, <<"F", "O", "R", "M", "A", "T">>, <<"R", "E", "T", "U", "R", "N">> }

\* Variant of PnrIteration: a stopword ends the cascade with "".
PnrIterationStopAtStopword(t, n) ==
    LET match == PnrSearch(t, n)
    IN  IF match # <<>>
        THEN IF StrUpper(match[1]) \notin pnr_stopwords
             THEN [returns |-> TRUE, value |-> StrUpper(match[1])]
             ELSE [returns |-> TRUE, value |-> <<>>]
        ELSE [returns |-> FALSE, value |-> <<>>]

\* lines 426-430: the body of the loop for patterns[n - 1]
PnrIteration(t, n) ==
    LET match == PnrSearch(t, n)
    IN  IF match # <<>> /\ StrUpper(match[1]) \notin pnr_stopwords
        THEN [returns |-> TRUE, value |-> StrUpper(match[1])]
        ELSE [returns |-> FALSE, value |-> <<>>]

\* extract_pnr as a whole
RECURSIVE ExtractPnrFrom(_, _)
ExtractPnrFrom(t, n) ==
    IF n > NumPatterns THEN <<>>
    ELSE IF PnrIteration(t, n).returns THEN PnrIteration(t, n).value
    ELSE ExtractPnrFrom(t, n + 1)

extract_pnr(t) == ExtractPnrFrom(t, 1)

(***************************************************************************)
(* extract_airport_codes (scanner.py 289-330)                              *)
(***************************************************************************)
\* lines 142-168
AIRPORT_STOPWORDS == {
    <<"T", "H", "E">>, <<"A", "N", "D">>, <<"F", "O", "R">>, <<"Y", "O", "U">>, <<"A", "R", "E">>, <<"H", "A", "S">>, <<"W", "A", "S">>, <<"H", "I", "S">>, <<"H", "E", "R">>, <<"O", "U", "R">>,
    <<"N", "O", "T">>, <<"B", "U", "T">>, <<"A", "L", "L">>, <<"C", "A", "N">>, <<"H", "A", "D">>, <<"O", "N", "E">>, <<"O", "U", "T">>, <<"D", "A", "Y">>, <<"G", "E", "T">>, <<"H", "I", "M">>,
    <<"H", "O", "W">>, <<"I", "T", "S">>, <<"M", "A", "Y">>, <<"N", "E", "W">>, <<"N", "O", "W">>, <<"O", "L", "D">>, <<"S", "E", "E">>, <<"W", "A", "Y">>, <<"W", "H", "O">>, <<"D", "I", "D">>,
    <<"G", "O", "T">>, <<"L", "E", "T">>, <<"S", "A", "Y">>, <<"S", "H", "E">>, <<"T", "O", "O">>, <<"U", "S", "E">>, <<"P", "N", "R">>, <<"A", "D", "D">>, <<"C", "O", "M">>, <<"N", "O", "N">>,
    <<"E", "N", "D">>, <<"O", "F", "F">>, <<"R", "U", "N">>, <<"S", "E", "T">>, <<"T", "R", "Y">>, <<"P", "U", "T">>, <<"B", "I", "G">>, <<"F", "E", "W">>, <<"F", "A", "R">>, <<"O", "W", "N">>,
    <<"S", "A", "T">>, <<"S", "I", "T">>, <<"T", "O", "P">>, <<"R", "E", "D">>, <<"H", "O", "T">>, <<"C", "U", "T">>, <<"A", "G", "O">>, <<"Y", "E", "S">>, <<"Y", "E", "T">>, <<"R", "A", "N">>,
    <<"B", "E", "D">>, <<"B", "O", "X">>, <<"B", "O", "Y">>, <<"C", "A", "R">>, <<"D", "O", "G">>, <<"E", "A", "R">>, <<"E", "A", "T">>, <<"E", "Y", "E">>, <<"F", "L", "Y">>, <<"G", "A", "S">>,
    <<"G", "U", "N">>, <<"H", "I", "T">>, <<"J", "O", "B">>, <<"K", "E", "Y">>, <<"L", "A", "Y">>, <<"L", "E", "G">>, <<"L", "E", "T">>, <<"L", "I", "E">>, <<"M", "A", "P">>, <<"M", "R", "S">>,
    <<"O", "I", "L">>, <<"P", "A", "Y">>, <<"P", "E", "R">>, <<"R", "U", "N">>, <<"S", "I", "X">>, <<"S", "U", "N">>, <<"T", "E", "N">>, <<"W", "A", "R">>, <<"W", "E", "T">>, <<"W", "I", "N">>,
    <<"W", "O", "N">>, <<"Y", "E", "S">>, <<"A", "I", "R">>, <<"A", "C", "T">>, <<"A", "G", "E">>, <<"A", "I", "D">>, <<"A", "I", "M">>, <<"A", "R", "T">>, <<"A", "S", "K">>, <<"B", "A", "D">>,
    <<"B", "A", "R">>, <<"B", "I", "T">>, <<"B", "U", "Y">>, <<"C", "O", "P">>, <<"C", "R", "Y">>, <<"D", "I", "E">>, <<"D", "I", "G">>, <<"D", "R", "Y">>, <<"D", "U", "E">>, <<"E", "R", "A">>,
    <<"F", "A", "N">>, <<"F", "A", "T">>, <<"F", "E", "E">>, <<"F", "I", "T">>, <<"F", "U", "N">>, <<"G", "A", "P">>, <<"H", "A", "T">>, <<"H", "I", "T">>, <<"I", "C", "E">>, <<"I", "L", "L">>,
    <<"J", "A", "M">>, <<"J", "E", "T">>, <<"L", "A", "W">>, <<"L", "A", "P">>, <<"L", "O", "G">>, <<"L", "O", "T">>, <<"L", "O", "W">>, <<"M", "A", "N">>, <<"M", "E", "N">>, <<"M", "E", "T">>,
    <<"M", "I", "X">>, <<"M", "O", "B">>, <<"M", "U", "D">>, <<"N", "E", "T">>, <<"N", "O", "R">>, <<"N", "U", "T">>, <<"O", "D", "D">>, <<"P", "A", "N">>, <<"P", "E", "N">>, <<"P", "E", "T">>,
    <<"P", "I", "N">>, <<"P", "I", "T">>, <<"P", "O", "T">>, <<"R", "A", "W">>, <<"R", "I", "B">>, <<"R", "I", "D">>, <<"R", "O", "B">>, <<"R", "O", "D">>, <<"R", "O", "W">>, <<"R", "U", "B">>,
    <<"S", "A", "D">>, <<"S", "I", "P">>, <<"S", "K", "I">>, <<"T", "A", "P">>, <<"T", "A", "X">>, <<"T", "I", "E">>, <<"T", "I", "N">>, <<"T", "I", "P">>, <<"T", "O", "E">>, <<"T", "O", "N">>,
    <<"T", "O", "W">>, <<"T", "O", "Y">>, <<"T", "U", "B">>, <<"V", "A", "N">>, <<"V", "I", "A">>, <<"V", "O", "W">>, <<"W", "E", "B">>, <<"W", "I", "G">>, <<"W", "I", "T">>, <<"W", "O", "E">>,
    <<"Y", "E", "N">>, <<"Z", "O", "O">>, <<"F", "W", "D">>, <<"R", "E", "F">>, <<"I", "N", "R">>, <<"U", "S", "D">>, <<"E", "U", "R">>, <<"S", "M", "S">>, <<"O", "T", "P">>, <<"U", "R", "L">>,
    <<"P", "D", "F">>, <<"A", "P", "P">>, <<"A", "P", "I">>, <<"R", "S", "S">>, <<"F", "A", "Q">>, <<"T", "B", "A">>, <<"T", "B", "D">>, <<"E", "T", "A">>, <<"E", "T", "D">>, <<"G", "M", "T">>,
    <<"I", "S", "T">>, <<"E", "S", "T">>, <<"P", "S", "T">>, <<"C", "S", "T">>, <<"U", "T", "C">>, <<"B", "A", "G">>, <<"D", "E", "P">>, <<"A", "R", "R">>, <<"V", "I", "A">>, <<"F", "L", "T">>,
    <<"O", "N", "S">>, <<"U", "A", "E">>, <<"U", "S", "A">>, <<"D", "G", "R">>, <<"V", "R", "M">>, <<"S", "T", "D">>, <<"S", "T", "A">>, <<"A", "V", "L">>, <<"C", "N", "F">>, <<"R", "A", "C">>,
    <<"G", "E", "N">>, <<"T", "A", "T">>, <<"O", "B", "C">>, <<"I", "N", "F">>, <<"A", "D", "T">>, <<"C", "H", "D">>, <<"P", "A", "X">>, <<"S", "E", "Q">>, <<"R", "O", "W">>, <<"Q", "T", "Y">>,
    <<"A", "M", "T">>, <<"T", "A", "X">>, <<"S", "U", "B">>, <<"T", "T", "L">>, <<"N", "E", "T">>, <<"M", "A", "X">>, <<"M", "I", "N">>, <<"A", "V", "G">>, <<"R", "E", "Q">>, <<"R", "E", "S">>,
    <<"M", "O", "B">>, <<"T", "E", "L">>, <<"W", "E", "B">>, <<"O", "R", "G">>, <<"G", "O", "V">>, <<"E", "D", "U">>, <<"M", "I", "L">>, <<"I", "N", "T">>, <<"E", "X", "T">>, <<"S", "R", "C">>,
    <<"D", "S", "T">>, <<"M", "S", "G">>, <<"E", "R", "R">>, <<"L", "O", "G">>, <<"C", "M", "D">>, <<"S", "Y", "S">>, <<"B", "U", "S">>, <<"C", "A", "B">> }

UpperChars == Range(UpperLetters)

\* [A-Z] under the global flag (?i) of lines 296 and 299
LetterChars == UpperChars \cup Range(LowerLetters)

\* str.isupper(): a cased character, and no lower-case one
IsUpper(s) ==
    /\ \E k \in DOMAIN s : s[k] \in UpperChars
    /\ \A k \in DOMAIN s : s[k] \notin Range(LowerLetters)

\* Variant of _valid_airport: no stopword test.
ValidAirportAnyWord(code) == IsUpper(code)

\* lines 302-303
_valid_airport(code) == IsUpper(code) /\ code \notin AIRPORT_STOPWORDS

\* the 30 of .{0,30}?
Window == 30

\* the characters . matches from p on, at most max (no re.DOTALL)
RECURSIVE DotRun(_, _, _)
DotRun(t, p, max) ==
    IF max > 0 /\ p <= Len(t) /\ t[p] # "\n" THEN 1 + DotRun(t, p + 1, max - 1) ELSE 0

\* .{0,30}? at p: lazy, the shortest first
LazyDots(t, p) == Tuple([k \in 1..(DotRun(t, p, Window) + 1) |-> p + k - 1])

\* three characters of cls at p
TripleAt(t, p, cls) == p + 2 <= Len(t) /\ \A k \in 0..2 : t[p + k] \in cls

\* \b([A-Z]{3})\b at p under (?i): the <<first, end>> of the group
LetterToken(t, p) ==
    IF TripleAt(t, p, LetterChars) /\ Boundary(t, p) /\ Boundary(t, p + 3)
    THEN <<<<p, p + 3>>>>
    ELSE <<>>

\* (?:from|departure|depart|origin) and (?:to|arrival|arrive|destination)
DirectionKeyword(t, side, s) ==
    IF side = "from"
    THEN Lit(t, s, <<"f", "r", "o", "m">>) \o Lit(t, s, <<"d", "e", "p", "a", "r", "t", "u", "r", "e">>) \o Lit(t, s, <<"d", "e", "p", "a", "r", "t">>)
            \o Lit(t, s, <<"o", "r", "i", "g", "i", "n">>)
    ELSE Lit(t, s, <<"t", "o">>) \o Lit(t, s, <<"a", "r", "r", "i", "v", "a", "l">>) \o Lit(t, s, <<"a", "r", "r", "i", "v", "e">>)
            \o Lit(t, s, <<"d", "e", "s", "t", "i", "n", "a", "t", "i", "o", "n">>)

\* lines 296 and 299: keyword\s*:?\s*.{0,30}?\b([A-Z]{3})\b at s
KeywordPatternAt(t, side, s) ==
    LET label == WsStarEach(t, OptLitEach(t, WsStarEach(t, DirectionKeyword(t, side, s)), <<":">>))
        dots == Each([k \in DOMAIN label |-> LazyDots(t, label[k])])
    IN  Each([k \in DOMAIN dots |-> LetterToken(t, dots[k])])

\* the least element of a non-empty set of positions
Leftmost(ps) == CHOOSE p \in ps : \A q \in ps : p <= q

\* the positions from s on at which the pattern of a side matches
KeywordStarts(t, side, s) == {q \in s..Len(t) : KeywordPatternAt(t, side, q) # <<>>}

\* re.finditer, lines 306 and 313: group(1) of the matches, which do not
\* overlap; after a match the scan goes on where the match ended
RECURSIVE FindIterFrom(_, _, _)
FindIterAt(t, side, s) ==
    <<SubSeq(t, Head(KeywordPatternAt(t, side, s))[1],
                Head(KeywordPatternAt(t, side, s))[2] - 1)>>
        \o FindIterFrom(t, side, Head(KeywordPatternAt(t, side, s))[2])

FindIterFrom(t, side, s) ==
    IF KeywordStarts(t, side, s) = {} THEN <<>>
    ELSE FindIterAt(t, side, Leftmost(KeywordStarts(t, side, s)))

\* lines 306-310 and 313-317: the first candidate that is valid, else ""
RECURSIVE FirstValid(_)
FirstValid(candidates) ==
    IF candidates = <<>> THEN <<>>
    ELSE IF _valid_airport(Head(candidates)) THEN Head(candidates)
    ELSE FirstValid(Tail(candidates))

\* lines 305-310 (side "from") and 312-317 (side "to")
KeywordPass(t, side) == FirstValid(FindIterFrom(t, side, 1))

\* line 321: \b([A-Z]{3})\s*(?:->|-)\s*([A-Z]{3})\b at s (no flags): the
\* positions where group 2 can begin.  The other separators of the pattern
\* are not ASCII and are not in the modelled alphabet.
RouteAt(t, s) ==
    IF TripleAt(t, s, UpperChars) /\ Boundary(t, s)
    THEN LET ws == WsStar(t, s + 3)
             sep == Each([k \in DOMAIN ws |-> Lit(t, ws[k], <<"-", ">">>) \o Lit(t, ws[k], <<"-">>)])
         IN  SelectSeq(WsStarEach(t, sep),
                       LAMBDA q : TripleAt(t, q, UpperChars) /\ Boundary(t, q + 3))
    ELSE <<>>

RouteStarts(t) == {q \in 1..Len(t) : RouteAt(t, q) # <<>>}

\* re.search(route_pattern, text), line 322: <<>> or <<<<c1, c2>>>>
RouteSearch(t) ==
    IF RouteStarts(t) = {} THEN <<>>
    ELSE LET s == Leftmost(RouteStarts(t))
         IN  <<<<SubSeq(t, s, s + 2), SubSeq(t, Head(RouteAt(t, s)), Head(RouteAt(t, s)) + 2)>>>>

\* lines 320-328, given the codes of the keyword passes
RouteFallback(t, codes) ==
    IF codes.from_code # <<>> /\ codes.to_code # <<>> THEN codes
    ELSE LET route_match == RouteSearch(t)
         IN  IF route_match = <<>> THEN codes
             ELSE [from_code |->
                       IF codes.from_code = <<>> /\ _valid_airport(route_match[1][1])
                       THEN route_match[1][1] ELSE codes.from_code,
                   to_code |->
                       IF codes.to_code = <<>> /\ _valid_airport(route_match[1][2])
                       THEN route_match[1][2] ELSE codes.to_code]

\* extract_airport_codes as a whole
extract_airport_codes(t) ==
    RouteFallback(t, [from_code |-> KeywordPass(t, "from"), to_code |-> KeywordPass(t, "to")])

(***************************************************************************)
(* extract_flight_number (scanner.py 274-286)                              *)
(***************************************************************************)
\* lines 110-139: the dict as its items, in insertion order
AIRLINE_CODES == <<
    <<<<"A", "I">>, <<"A", "i", "r", " ", "I", "n", "d", "i", "a">>>>,
    <<<<"6", "E">>, <<"I", "n", "d", "i", "G", "o">>>>,
    <<<<"S", "G">>, <<"S", "p", "i", "c", "e", "J", "e", "t">>>>,
    <<<<"U", "K">>, <<"V", "i", "s", "t", "a", "r", "a">>>>,
    <<<<"Q", "P">>, <<"A", "k", "a", "s", "a", " ", "A", "i", "r">>>>,
    <<<<"I", "5">>, <<"A", "i", "r", "A", "s", "i", "a", " ", "I", "n", "d", "i", "a">>>>,
    <<<<"E", "K">>, <<"E", "m", "i", "r", "a", "t", "e", "s">>>>,
    <<<<"E", "Y">>, <<"E", "t", "i", "h", "a", "d">>>>,
    <<<<"Q", "R">>, <<"Q", "a", "t", "a", "r", " ", "A", "i", "r", "w", "a", "y", "s">>>>,
    <<<<"S", "Q">>, <<"S", "i", "n", "g", "a", "p", "o", "r", "e", " ", "A", "i", "r", "l", "i", "n", "e", "s">>>>,
    <<<<"L", "H">>, <<"L", "u", "f", "t", "h", "a", "n", "s", "a">>>>,
    <<<<"B", "A">>, <<"B", "r", "i", "t", "i", "s", "h", " ", "A", "i", "r", "w", "a", "y", "s">>>>,
    <<<<"K", "L">>, <<"K", "L", "M">>>>,
    <<<<"A", "F">>, <<"A", "i", "r", " ", "F", "r", "a", "n", "c", "e">>>>,
    <<<<"U", "A">>, <<"U", "n", "i", "t", "e", "d", " ", "A", "i", "r", "l", "i", "n", "e", "s">>>>,
    <<<<"D", "L">>, <<"D", "e", "l", "t", "a", " ", "A", "i", "r", "l", "i", "n", "e", "s">>>>,
    <<<<"A", "A">>, <<"A", "m", "e", "r", "i", "c", "a", "n", " ", "A", "i", "r", "l", "i", "n", "e", "s">>>>,
    <<<<"W", "N">>, <<"S", "o", "u", "t", "h", "w", "e", "s", "t", " ", "A", "i", "r", "l", "i", "n", "e", "s">>>>,
    <<<<"T", "G">>, <<"T", "h", "a", "i", " ", "A", "i", "r", "w", "a", "y", "s">>>>,
    <<<<"C", "X">>, <<"C", "a", "t", "h", "a", "y", " ", "P", "a", "c", "i", "f", "i", "c">>>>,
    <<<<"9", "W">>, <<"J", "e", "t", " ", "A", "i", "r", "w", "a", "y", "s">>>>,
    <<<<"G", "8">>, <<"G", "o", " ", "F", "i", "r", "s", "t">>>>,
    <<<<"9", "I">>, <<"A", "l", "l", "i", "a", "n", "c", "e", " ", "A", "i", "r">>>>,
    <<<<"S", "5">>, <<"S", "t", "a", "r", " ", "A", "i", "r">>>>,
    <<<<"F", "Z">>, <<"F", "l", "y", "D", "u", "b", "a", "i">>>>,
    <<<<"W", "Y">>, <<"O", "m", "a", "n", " ", "A", "i", "r">>>>,
    <<<<"S", "V">>, <<"S", "a", "u", "d", "i", "a">>>>,
    <<<<"T", "K">>, <<"T", "u", "r", "k", "i", "s", "h", " ", "A", "i", "r", "l", "i", "n", "e", "s">>>> >>

\* Python `code in AIRLINE_CODES`
InAirlineCodes(code) == \E k \in DOMAIN AIRLINE_CODES : AIRLINE_CODES[k][1] = code

DigitChars == Range(Digits)

\* the 4 of \d{1,4}
MaxDigits == 4

RECURSIVE DigitRun(_, _, _)
DigitRun(t, p, max) ==
    IF max > 0 /\ p <= Len(t) /\ t[p] \in DigitChars THEN 1 + DigitRun(t, p + 1, max - 1) ELSE 0

\* \s? at p: greedy
OptSpace(t, p) == IF p <= Len(t) /\ IsSpace(t[p]) THEN <<p + 1, p>> ELSE <<p>>

\* \d{1,4} at p, greedy: the <<first, end>> of each way to match
Number(t, p) ==
    Tuple([k \in 1..DigitRun(t, p, MaxDigits) |-> <<p, p + DigitRun(t, p, MaxDigits) + 1 - k>>])

NumberEach(t, ps) == Each([k \in DOMAIN ps |-> Number(t, ps[k])])

\* two characters of cls at p
PairAt(t, p, cls) == p + 1 <= Len(t) /\ t[p] \in cls /\ t[p + 1] \in cls

\* line 276: \b([A-Z0-9]{2})\s?(\d{1,4})\b at s: the <<first, end>> of group 2
FlightPatternAt(t, s) ==
    IF PairAt(t, s, UpperChars \cup DigitChars) /\ Boundary(t, s)
    THEN SelectSeq(NumberEach(t, OptSpace(t, s + 2)), LAMBDA m : Boundary(t, m[2]))
    ELSE <<>>

FlightStarts(t, s) == {q \in s..Len(t) : FlightPatternAt(t, q) # <<>>}

\* re.findall, line 277: the (code, num) of the matches, which do not overlap
RECURSIVE FindAllFrom(_, _)
FindAllAt(t, s) ==
    <<<<SubSeq(t, s, s + 1),
        SubSeq(t, Head(FlightPatternAt(t, s))[1], Head(FlightPatternAt(t, s))[2] - 1)>>>>
        \o FindAllFrom(t, Head(FlightPatternAt(t, s))[2])

FindAllFrom(t, s) ==
    IF FlightStarts(t, s) = {} THEN <<>>
    ELSE FindAllAt(t, Leftmost(FlightStarts(t, s)))

\* line 279; str.isalpha() holds of the letters
CodeAccepted(code) ==
    InAirlineCodes(code) \/ (code[1] \in LetterChars /\ code[2] \in LetterChars)

\* lines 278-280: <<>> when the loop ends without a return, else <<the value>>
RECURSIVE FirstAcceptedMatch(_)
FirstAcceptedMatch(matches) ==
    IF matches = <<>> THEN <<>>
    ELSE IF CodeAccepted(Head(matches)[1]) THEN <<Head(matches)[1] \o Head(matches)[2]>>
    ELSE FirstAcceptedMatch(Tail(matches))

\* lines 276-280
PrimaryCascade(t) == FirstAcceptedMatch(FindAllFrom(t, 1))

\* (?:flight|flt|flt\.)
FlightWord(t, s) == Lit(t, s, <<"f", "l", "i", "g", "h", "t">>) \o Lit(t, s, <<"f", "l", "t">>) \o Lit(t, s, <<"f", "l", "t", ".">>)

\* (?:no\.?\s*)? at p
NumberLabel(t, p) == Opt(WsStarEach(t, OptLitEach(t, Lit(t, p, <<"n", "o">>), <<".">>)), p)

\* ([A-Z0-9]{2}\s?\d{1,4}) at p under re.IGNORECASE: the <<first, end>> of
\* each way to match the group
CodeAndNumber(t, p) ==
    IF PairAt(t, p, AlnumChars)
    THEN Tuple([k \in DOMAIN NumberEach(t, OptSpace(t, p + 2)) |->
                    <<p, NumberEach(t, OptSpace(t, p + 2))[k][2]>>])
    ELSE <<>>

\* line 282: pattern2 at s
ContextPatternAt(t, s) ==
    LET word == WsStarEach(t, FlightWord(t, s))
        label == Each([k \in DOMAIN word |-> NumberLabel(t, word[k])])
    IN  Each([k \in DOMAIN label |-> CodeAndNumber(t, label[k])])

ContextStarts(t) == {q \in 1..Len(t) : ContextPatternAt(t, q) # <<>>}

\* re.search(pattern2, text, re.IGNORECASE), line 283: <<>> or <<group(1)>>
ContextSearch(t) ==
    IF ContextStarts(t) = {} THEN <<>>
    ELSE <<SubSeq(t, Head(ContextPatternAt(t, Leftmost(ContextStarts(t))))[1],
                     Head(ContextPatternAt(t, Leftmost(ContextStarts(t))))[2] - 1)>>

\* lines 282-286; str.replace(" ", "") drops the space characters
ContextFallback(t) ==
    IF ContextSearch(t) # <<>> THEN SelectSeq(ContextSearch(t)[1], LAMBDA c : c # " ")
    ELSE <<>>

\* extract_flight_number as a whole
extract_flight_number(t) ==
    IF PrimaryCascade(t) # <<>> THEN PrimaryCascade(t)[1] ELSE ContextFallback(t)

\* lines 69-107: the dict as its items, in insertion order
KNOWN_AIRLINES == <<
    <<<<"a", "i", "r", "i", "n", "d", "i", "a">>, <<"A", "i", "r", " ", "I", "n", "d", "i", "a">>>>,
    <<<<"i", "n", "d", "i", "g", "o">>, <<"I", "n", "d", "i", "G", "o">>>>,
    <<<<"g", "o", "i", "n", "d", "i", "g", "o">>, <<"I", "n", "d", "i", "G", "o">>>>,
    <<<<"s", "p", "i", "c", "e", "j", "e", "t">>, <<"S", "p", "i", "c", "e", "J", "e", "t">>>>,
    <<<<"v", "i", "s", "t", "a", "r", "a">>, <<"V", "i", "s", "t", "a", "r", "a">>>>,
    <<<<"a", "i", "r", "v", "i", "s", "t", "a", "r", "a">>, <<"V", "i", "s", "t", "a", "r", "a">>>>,
    <<<<"a", "k", "a", "s", "a", "a", "i", "r">>, <<"A", "k", "a", "s", "a", " ", "A", "i", "r">>>>,
    <<<<"a", "i", "r", "a", "s", "i", "a">>, <<"A", "i", "r", "A", "s", "i", "a">>>>,
    <<<<"e", "m", "i", "r", "a", "t", "e", "s">>, <<"E", "m", "i", "r", "a", "t", "e", "s">>>>,
    <<<<"e", "t", "i", "h", "a", "d">>, <<"E", "t", "i", "h", "a", "d">>>>,
    <<<<"q", "a", "t", "a", "r">>, <<"Q", "a", "t", "a", "r", " ", "A", "i", "r", "w", "a", "y", "s">>>>,
    <<<<"q", "a", "t", "a", "r", "a", "i", "r", "w", "a", "y", "s">>, <<"Q", "a", "t", "a", "r", " ", "A", "i", "r", "w", "a", "y", "s">>>>,
    <<<<"s", "i", "n", "g", "a", "p", "o", "r", "e">>, <<"S", "i", "n", "g", "a", "p", "o", "r", "e", " ", "A", "i", "r", "l", "i", "n", "e", "s">>>>,
    <<<<"s", "i", "n", "g", "a", "p", "o", "r", "e", "a", "i", "r">>, <<"S", "i", "n", "g", "a", "p", "o", "r", "e", " ", "A", "i", "r", "l", "i", "n", "e", "s">>>>,
    <<<<"l", "u", "f", "t", "h", "a", "n", "s", "a">>, <<"L", "u", "f", "t", "h", "a", "n", "s", "a">>>>,
    <<<<"b", "r", "i", "t", "i", "s", "h">>, <<"B", "r", "i", "t", "i", "s", "h", " ", "A", "i", "r", "w", "a", "y", "s">>>>,
    <<<<"b", "r", "i", "t", "i", "s", "h", "a", "i", "r", "w", "a", "y", "s">>, <<"B", "r", "i", "t", "i", "s", "h", " ", "A", "i", "r", "w", "a", "y", "s">>>>,
    <<<<"k", "l", "m">>, <<"K", "L", "M">>>>,
    <<<<"a", "i", "r", "f", "r", "a", "n", "c", "e">>, <<"A", "i", "r", " ", "F", "r", "a", "n", "c", "e">>>>,
    <<<<"u", "n", "i", "t", "e", "d">>, <<"U", "n", "i", "t", "e", "d", " ", "A", "i", "r", "l", "i", "n", "e", "s">>>>,
    <<<<"d", "e", "l", "t", "a">>, <<"D", "e", "l", "t", "a", " ", "A", "i", "r", "l", "i", "n", "e", "s">>>>,
    <<<<"a", "m", "e", "r", "i", "c", "a", "n">>, <<"A", "m", "e", "r", "i", "c", "a", "n", " ", "A", "i", "r", "l", "i", "n", "e", "s">>>>,
    <<<<"s", "o", "u", "t", "h", "w", "e", "s", "t">>, <<"S", "o", "u", "t", "h", "w", "e", "s", "t", " ", "A", "i", "r", "l", "i", "n", "e", "s">>>>,
    <<<<"t", "h", "a", "i">>, <<"T", "h", "a", "i", " ", "A", "i", "r", "w", "a", "y", "s">>>>,
    <<<<"c", "a", "t", "h", "a", "y">>, <<"C", "a", "t", "h", "a", "y", " ", "P", "a", "c", "i", "f", "i", "c">>>>,
    <<<<"c", "a", "t", "h", "a", "y", "p", "a", "c", "i", "f", "i", "c">>, <<"C", "a", "t", "h", "a", "y", " ", "P", "a", "c", "i", "f", "i", "c">>>>,
    <<<<"j", "e", "t">>, <<"J", "e", "t", " ", "A", "i", "r", "w", "a", "y", "s">>>>,
    <<<<"j", "e", "t", "a", "i", "r", "w", "a", "y", "s">>, <<"J", "e", "t", " ", "A", "i", "r", "w", "a", "y", "s">>>>,
    <<<<"g", "o", "a", "i", "r">>, <<"G", "o", " ", "F", "i", "r", "s", "t">>>>,
    <<<<"g", "o", "f", "i", "r", "s", "t">>, <<"G", "o", " ", "F", "i", "r", "s", "t">>>>,
    <<<<"a", "l", "l", "i", "a", "n", "c", "e", "a", "i", "r">>, <<"A", "l", "l", "i", "a", "n", "c", "e", " ", "A", "i", "r">>>>,
    <<<<"s", "t", "a", "r", "a", "i", "r">>, <<"S", "t", "a", "r", " ", "A", "i", "r">>>>,
    <<<<"f", "l", "y", "d", "u", "b", "a", "i">>, <<"F", "l", "y", "D", "u", "b", "a", "i">>>>,
    <<<<"o", "m", "a", "n", "a", "i", "r">>, <<"O", "m", "a", "n", " ", "A", "i", "r">>>>,
    <<<<"s", "a", "u", "d", "i", "a">>, <<"S", "a", "u", "d", "i", "a">>>>,
    <<<<"t", "u", "r", "k", "i", "s", "h">>, <<"T", "u", "r", "k", "i", "s", "h", " ", "A", "i", "r", "l", "i", "n", "e", "s">>>>,
    <<<<"t", "u", "r", "k", "i", "s", "h", "a", "i", "r", "l", "i", "n", "e", "s">>, <<"T", "u", "r", "k", "i", "s", "h", " ", "A", "i", "r", "l", "i", "n", "e", "s">>>> >>


(***************************************************************************)
(* extract_airline (scanner.py 383-406)                                    *)
(***************************************************************************)
\* [\w.-]+ at p: the length of the run
RECURSIVE DomainRun(_, _)
DomainRun(s, p) ==
    IF p <= Len(s) /\ (IsWord(s[p]) \/ s[p] \in {".", "-"}) THEN 1 + DomainRun(s, p + 1) ELSE 0

\* where @([\w.-]+) matches
DomainStarts(s) == {q \in 1..Len(s) : s[q] = "@" /\ DomainRun(s, q + 1) >= 1}

\* re.search(r"@([\w.-]+)", sender), line 386: <<>> or <<group(1)>>
DomainSearch(s) ==
    IF DomainStarts(s) = {} THEN <<>>
    ELSE <<SubSeq(s, Leftmost(DomainStarts(s)) + 1,
                     Leftmost(DomainStarts(s)) + DomainRun(s, Leftmost(DomainStarts(s)) + 1))>>

\* line 388, for a sender the pattern matches: .lower().replace(".", "")
SenderDomain(s) == SelectSeq(Tuple(StrLower(DomainSearch(s)[1])), LAMBDA c : c # ".")

\* Variant of SenderTier: the domain is not looked at.
SenderTierSkipped(s) == <<>>

\* lines 389-391, given domain: <<>> when the loop ends without a return,
\* else <<the value>>
DomainTier(domain) ==
    IF \E k \in DOMAIN KNOWN_AIRLINES : StrIn(KNOWN_AIRLINES[k][1], domain)
    THEN <<KNOWN_AIRLINES[Leftmost({k \in DOMAIN KNOWN_AIRLINES :
                                        StrIn(KNOWN_AIRLINES[k][1], domain)})][2]>>
    ELSE <<>>

\* lines 386-391
SenderTier(s) == IF DomainSearch(s) = <<>> THEN <<>> ELSE DomainTier(SenderDomain(s))

\* lines 395-398, given flight_num: <<>> or <<AIRLINE_CODES[code]>>
CodeTierOf(flight_num) ==
    IF flight_num # <<>> /\ Len(flight_num) >= 2 /\ InAirlineCodes(SubSeq(flight_num, 1, 2))
    THEN <<AIRLINE_CODES[CHOOSE k \in DOMAIN AIRLINE_CODES :
                            AIRLINE_CODES[k][1] = SubSeq(flight_num, 1, 2)][2]>>
    ELSE <<>>

\* line 403, for the k-th item of KNOWN_AIRLINES
NamedIn(k, text_lower) ==
    \/ StrIn(KNOWN_AIRLINES[k][1], text_lower)
    \/ StrIn(Tuple(StrLower(KNOWN_AIRLINES[k][2])), text_lower)

\* lines 401-404: <<>> when the loop ends without a return, else <<the value>>
TextTier(t) ==
    LET text_lower == Tuple(StrLower(t))
    IN  IF \E k \in DOMAIN KNOWN_AIRLINES : NamedIn(k, text_lower)
        THEN <<KNOWN_AIRLINES[Leftmost({k \in DOMAIN KNOWN_AIRLINES :
                                            NamedIn(k, text_lower)})][2]>>
        ELSE <<>>

\* extract_airline as a whole
extract_airline(t, s) ==
    IF SenderTier(s) # <<>> THEN SenderTier(s)[1]
    ELSE IF CodeTierOf(extract_flight_number(t)) # <<>>
    THEN CodeTierOf(extract_flight_number(t))[1]
    ELSE IF TextTier(t) # <<>> THEN TextTier(t)[1]
    ELSE <<>>

(***************************************************************************)
(* Inputs: the messages of one run                                         *)
(***************************************************************************)
MaxMessages == 3

\* One message as parse_email sees it: whether fetching or parsing it
\* raises, its headers, and what the extractors find in its text.
Msg(fails, subject, email_date, flight_date, flight_number, from_code, to_code, airline, pnr, has_passenger_name) ==
    [fails |-> fails, subject |-> subject, email_date |-> email_date,
     flight_date |-> flight_date, flight_number |-> flight_number,
     from_code |-> from_code, to_code |-> to_code, airline |-> airline,
     pnr |-> pnr, has_passenger_name |-> has_passenger_name]

SubjTicket == <<"Y", "o", "u", "r", " ", "E", "-", "T", "i", "c", "k", "e", "t">>
SubjHotel == <<"Y", "o", "u", "r", " ", "H", "o", "t", "e", "l", " ", "B", "o", "o", "k", "i", "n", "g", " ", "C", "o", "n", "f", "i", "r", "m", "a", "t", "i", "o", "n">>
Dec31 == <<"2", "0", "2", "4", "-", "1", "2", "-", "3", "1">>
Mar01 == <<"2", "0", "2", "5", "-", "0", "3", "-", "0", "1">>
None == <<>>

MessageSet == {
    \* booking ABC123 seen with different amounts of detail
    Msg(FALSE, SubjTicket, Mar01, Mar01, <<"A", "I", "3", "0", "2">>, <<"D", "E", "L">>, <<"B", "O", "M">>, <<"A", "i", "r", " ", "I", "n", "d", "i", "a">>, <<"A", "B", "C", "1", "2", "3">>, TRUE),
    Msg(FALSE, SubjTicket, Mar01, None, None, None, None, None, <<"A", "B", "C", "1", "2", "3">>, TRUE),
    Msg(FALSE, SubjTicket, Mar01, Dec31, <<"A", "I", "3", "0", "2">>, None, None, None, <<"A", "B", "C", "1", "2", "3">>, TRUE),
    Msg(FALSE, SubjTicket, Mar01, Mar01, None, <<"D", "E", "L">>, None, None, <<"A", "B", "C", "1", "2", "3">>, TRUE),
    \* no PNR: identity is (flight number, date)
    Msg(FALSE, SubjTicket, Dec31, None, <<"6", "E", "2", "3", "4", "1">>, None, None, None, None, TRUE),
    Msg(FALSE, SubjTicket, Mar01, Dec31, <<"6", "E", "2", "3", "4", "1">>, <<"B", "L", "R">>, <<"H", "Y", "D">>, None, None, TRUE),
    Msg(FALSE, SubjTicket, None, None, <<"6", "E", "2", "3", "4", "1">>, None, None, None, None, TRUE),
    Msg(FALSE, SubjTicket, Dec31, None, None, <<"D", "E", "L">>, <<"B", "O", "M">>, None, None, TRUE),
    \* no identity at all
    Msg(FALSE, SubjTicket, None, None, None, <<"D", "E", "L">>, <<"B", "O", "M">>, None, None, TRUE),
    \* an excluded subject, with rich flight data
    Msg(FALSE, SubjHotel, Mar01, Mar01, <<"A", "I", "3", "0", "2">>, <<"D", "E", "L">>, <<"B", "O", "M">>, <<"A", "i", "r", " ", "I", "n", "d", "i", "a">>, <<"A", "B", "C", "1", "2", "3">>, TRUE),
    \* no real signal
    Msg(FALSE, SubjTicket, Mar01, Mar01, None, <<"D", "E", "L">>, None, <<"A", "i", "r", " ", "I", "n", "d", "i", "a">>, None, TRUE),
    \* booking XYZ789: without the passenger name, failing, and plain
    Msg(FALSE, SubjTicket, Mar01, Mar01, <<"A", "I", "3", "0", "2">>, None, None, None, <<"X", "Y", "Z", "7", "8", "9">>, FALSE),
    Msg(TRUE, SubjTicket, Mar01, Mar01, <<"A", "I", "3", "0", "2">>, <<"D", "E", "L">>, <<"B", "O", "M">>, <<"A", "i", "r", " ", "I", "n", "d", "i", "a">>, <<"X", "Y", "Z", "7", "8", "9">>, TRUE),
    Msg(FALSE, SubjTicket, Mar01, None, None, None, None, None, <<"X", "Y", "Z", "7", "8", "9">>, TRUE) }

RECURSIVE SeqsUpTo(_, _)
SeqsUpTo(S, n) ==
    IF n = 0 THEN {<<>>}
    ELSE LET shorter == SeqsUpTo(S, n - 1)
         IN  shorter \cup {Append(s, x) : s \in {t \in shorter : Len(t) = n - 1}, x \in S}

(***************************************************************************)
(* main (scanner.py 487-587)                                               *)
(***************************************************************************)
Init ==
    /\ messages \in SeqsUpTo(MessageSet, MaxMessages)
    /\ i = 1
    /\ flights = <<>>
    /\ actual_flights = <<>>
    /\ named_flights = <<>>
    /\ seen_pnrs = EmptyDict
    /\ deduped = <<>>
    /\ di = 1
    /\ pc = "search"
    /\ text = <<>>
    /\ pat = 1
    /\ pnr_result = <<>>
    /\ xpc = "idle"
    /\ sender = <<>>
    /\ flight_result = <<>>
    /\ airport_codes = [from_code |-> <<>>, to_code |-> <<>>]
    /\ airline_result = <<>>

\* lines 498-500: nothing found, main returns
NoMessages ==
    /\ pc = "search"
    /\ messages = <<>>
    /\ pc' = "done"
    /\ UNCHANGED <<messages, i, flights, actual_flights, named_flights,
                   seen_pnrs, deduped, di>>
    /\ UNCHANGED extractor_vars

\* lines 502-503
StartParsing ==
    /\ pc = "search"
    /\ messages # <<>>
    /\ flights' = <<>>
    /\ i' = 1
    /\ pc' = "parse"
    /\ UNCHANGED <<messages, actual_flights, named_flights, seen_pnrs, deduped, di>>
    /\ UNCHANGED extractor_vars

\* lines 504-511: one iteration of the parse loop
ParseMessage ==
    /\ pc = "parse"
    /\ i <= Len(messages)
    /\ flights' = TryParse(flights, messages[i])
    /\ i' = i + 1
    /\ UNCHANGED <<messages, actual_flights, named_flights, seen_pnrs, deduped, di, pc>>
    /\ UNCHANGED extractor_vars

\* lines 527-529
ExcludeBySubject ==
    /\ pc = "parse"
    /\ i > Len(messages)
    /\ flights' = NonExcluded(flights)
    /\ pc' = "signal"
    /\ UNCHANGED <<messages, i, actual_flights, named_flights, seen_pnrs, deduped, di>>
    /\ UNCHANGED extractor_vars

\* lines 532-536
KeepActualFlights ==
    /\ pc = "signal"
    /\ actual_flights' = ActualFlights(flights)
    /\ pc' = "name"
    /\ UNCHANGED <<messages, i, flights, named_flights, seen_pnrs, deduped, di>>
    /\ UNCHANGED extractor_vars

\* lines 539-560
KeepNamedFlights ==
    /\ pc = "name"
    /\ named_flights' = [k \in DOMAIN NamedFlights(actual_flights) |->
                            DelHasName(NamedFlights(actual_flights)[k])]
    /\ flights' = named_flights'
    /\ actual_flights' = DelWhereNamed(actual_flights)
    /\ seen_pnrs' = EmptyDict
    /\ deduped' = <<>>
    /\ di' = 1
    /\ pc' = "dedup"
    /\ UNCHANGED <<messages, i>>
    /\ UNCHANGED extractor_vars

\* lines 561-581: one iteration of the deduplication loop
DedupRecord ==
    /\ pc = "dedup"
    /\ di <= Len(flights)
    /\ LET r == DedupBody(seen_pnrs, deduped, flights[di])
       IN  /\ seen_pnrs' = r.seen_pnrs
           /\ deduped' = r.deduped
           /\ pc' = IF r.raised THEN "ValueError" ELSE "dedup"
    /\ di' = di + 1
    /\ UNCHANGED <<messages, i, flights, actual_flights, named_flights>>
    /\ UNCHANGED extractor_vars

\* lines 583-584: flights = deduped
TakeDeduped ==
    /\ pc = "dedup"
    /\ di > Len(flights)
    /\ flights' = deduped
    /\ pc' = "sort"
    /\ UNCHANGED <<messages, i, actual_flights, named_flights, seen_pnrs, deduped, di>>
    /\ UNCHANGED extractor_vars

\* line 587: flights and deduped name the same list, sorted in place
SortFlights ==
    /\ pc = "sort"
    /\ flights' = SortByDate(flights)
    /\ deduped' = flights'
    /\ pc' = "done"
    /\ UNCHANGED <<messages, i, actual_flights, named_flights, seen_pnrs, di>>
    /\ UNCHANGED extractor_vars

Next ==
    \/ NoMessages
    \/ StartParsing
    \/ ParseMessage
    \/ ExcludeBySubject
    \/ KeepActualFlights
    \/ KeepNamedFlights
    \/ DedupRecord
    \/ TakeDeduped
    \/ SortFlights

Spec == Init /\ [][Next]_vars

\* The control state stays within the statements modelled.
TypeOK ==
    /\ pc \in {"idle", "search", "parse", "signal", "name", "dedup", "sort", "done"}
    /\ xpc \in {"idle", "extract_pnr", "from_pass", "to_pass", "route", "primary", "fallback", "sender_tier", "code_tier", "text_tier", "returned"}
    /\ i \in 1..(Len(messages) + 1)
    /\ pc = "dedup" => di \in 1..(Len(flights) + 1)

\* lines 504-511 as a whole
RECURSIVE ParseAll(_, _)
ParseAll(fl, msgs) ==
    IF msgs = <<>> THEN fl ELSE ParseAll(TryParse(fl, Head(msgs)), Tail(msgs))

\* lines 498-587 as a whole: the list main writes for a list of messages
MainOutput(msgs) ==
    IF msgs = <<>> THEN <<>>
    ELSE LET named == NamedFlights(ActualFlights(NonExcluded(ParseAll(<<>>, msgs))))
         IN  SortByDate(Dedup([k \in DOMAIN named |-> DelHasName(named[k])]))

(***************************************************************************)
(* extract_pnr, run on its own on a text                                   *)
(***************************************************************************)
MaxSegments == 3

\* The texts: up to MaxSegments pieces of mail text, one after the other.
PnrSegments == {
    <<"P", "N", "R", ":", " ">>, <<"p", "n", "r">>, <<" ", "r", "e", "f", " ">>, <<" ", "c", "o", "n", "f", "i", "r", "m", "a", "t", "i", "o", "n", " ", "n", "u", "m", "b", "e", "r", " ">>,
    <<"A", "B", "C", "1", "2", "3", "4">>, <<"N", "U", "M", "B", "E", "R">>, <<"Q", "W", "E", "1", "2", "3">>,
    <<" ", "b", "o", "o", "k", "i", "n", "g", " ", "r", "e", "f", ":", " ", "a", "b", "c", "1", "2">>, <<" ", "R", "e", "f", " ", "n", "o", ".", " ", "z", "x", "8", "1", "q", "w">> }

PnrTexts == {Concat(s) : s \in SeqsUpTo(PnrSegments, MaxSegments)}

\* main is not running
MainIdle ==
    /\ messages = <<>>
    /\ i = 1
    /\ flights = <<>>
    /\ actual_flights = <<>>
    /\ named_flights = <<>>
    /\ seen_pnrs = EmptyDict
    /\ deduped = <<>>
    /\ di = 1
    /\ pc = "idle"

\* the extractors other than the one that runs have no arguments and
\* have returned nothing
NoFields ==
    /\ sender = <<>>
    /\ flight_result = <<>>
    /\ airport_codes = [from_code |-> <<>>, to_code |-> <<>>]
    /\ airline_result = <<>>

InitPnr ==
    /\ MainIdle
    /\ NoFields
    /\ text \in PnrTexts
    /\ pat = 1
    /\ pnr_result = <<>>
    /\ xpc = "extract_pnr"

\* lines 425-430: one iteration of `for pattern in patterns`
TryPattern ==
    /\ xpc = "extract_pnr"
    /\ pat <= NumPatterns
    /\ \E r \in {PnrIteration(text, pat)} :
        IF r.returns
        THEN /\ pnr_result' = r.value
             /\ xpc' = "returned"
             /\ UNCHANGED pat
        ELSE /\ pat' = pat + 1
             /\ UNCHANGED <<pnr_result, xpc>>
    /\ UNCHANGED <<text, main_vars, field_vars>>

\* line 431: return ""
NoPatternLeft ==
    /\ xpc = "extract_pnr"
    /\ pat > NumPatterns
    /\ pnr_result' = <<>>
    /\ xpc' = "returned"
    /\ UNCHANGED <<text, pat, main_vars, field_vars>>

NextPnr ==
    \/ TryPattern
    \/ NoPatternLeft

SpecPnr == InitPnr /\ [][NextPnr]_vars

(***************************************************************************)
(* extract_airport_codes, run on its own on a text                         *)
(***************************************************************************)
AirportSegments == {
    <<"F", "r", "o", "m", " ">>, <<"D", "E", "L">>, <<"-", "B", "O", "M">>, <<" ", "t", "o", " ", "B", "O", "M">>, <<"T", "H", "E", " ">>, <<"d", "e", "l", " ">>, <<" ", "t", "o", " ", "T", "H", "E">>,
    <<"x", "x", "x", "x", "x", "x", "x", "x", "x", "x", "x", "x", "x", "x", "x", "x", "x", "x", "x", "x", "x", "x", "x", "x", "x", "x", "x", "x", "x", " ">> }

AirportTexts == {Concat(s) : s \in SeqsUpTo(AirportSegments, MaxSegments)}

\* lines 291-292
InitAirport ==
    /\ MainIdle
    /\ text \in AirportTexts
    /\ pat = 1
    /\ pnr_result = <<>>
    /\ NoFields
    /\ xpc = "from_pass"

\* lines 305-310
FromPass ==
    /\ xpc = "from_pass"
    /\ airport_codes' = [airport_codes EXCEPT !.from_code = KeywordPass(text, "from")]
    /\ xpc' = "to_pass"
    /\ UNCHANGED <<text, pat, pnr_result, sender, flight_result, airline_result, main_vars>>

\* lines 312-317
ToPass ==
    /\ xpc = "to_pass"
    /\ airport_codes' = [airport_codes EXCEPT !.to_code = KeywordPass(text, "to")]
    /\ xpc' = "route"
    /\ UNCHANGED <<text, pat, pnr_result, sender, flight_result, airline_result, main_vars>>

\* lines 320-328 and 330: a side is still empty
RoutePass ==
    /\ xpc = "route"
    /\ airport_codes.from_code = <<>> \/ airport_codes.to_code = <<>>
    /\ airport_codes' = RouteFallback(text, airport_codes)
    /\ xpc' = "returned"
    /\ UNCHANGED <<text, pat, pnr_result, sender, flight_result, airline_result, main_vars>>

\* lines 320 and 330: both sides are set
ReturnCodes ==
    /\ xpc = "route"
    /\ airport_codes.from_code # <<>> /\ airport_codes.to_code # <<>>
    /\ xpc' = "returned"
    /\ UNCHANGED <<text, pat, pnr_result, field_vars, main_vars>>

NextAirport ==
    \/ FromPass
    \/ ToPass
    \/ RoutePass
    \/ ReturnCodes

SpecAirport == InitAirport /\ [][NextAirport]_vars

(***************************************************************************)
(* extract_flight_number, run on its own on a text                         *)
(***************************************************************************)
FlightSegments == {
    <<"F", "l", "i", "g", "h", "t", " ">>, <<"A", "I", " ", "3", "0", "2">>, <<" ", "c", "o", "n", "f", "i", "r", "m", "e", "d">>, <<"a", "i">> \o <<"\t">>, <<"3", "0", "2">>, <<"6", "E">>,
    <<"f", "l", "t", ".", " ", "n", "o", ".", " ">>, <<" ">> }

FlightTexts == {Concat(s) : s \in SeqsUpTo(FlightSegments, MaxSegments)}

InitFlight ==
    /\ MainIdle
    /\ text \in FlightTexts
    /\ pat = 1
    /\ pnr_result = <<>>
    /\ NoFields
    /\ xpc = "primary"

\* lines 276-280: the code-and-number matches, the first accepted returned
TryPrimaryCascade ==
    /\ xpc = "primary"
    /\ \E r \in {PrimaryCascade(text)} :
        IF r # <<>>
        THEN /\ flight_result' = r[1]
             /\ xpc' = "returned"
        ELSE /\ xpc' = "fallback"
             /\ UNCHANGED flight_result
    /\ UNCHANGED <<text, pat, pnr_result, sender, airport_codes, airline_result, main_vars>>

\* lines 282-286
TryContextFallback ==
    /\ xpc = "fallback"
    /\ flight_result' = ContextFallback(text)
    /\ xpc' = "returned"
    /\ UNCHANGED <<text, pat, pnr_result, sender, airport_codes, airline_result, main_vars>>

NextFlight ==
    \/ TryPrimaryCascade
    \/ TryContextFallback

SpecFlight == InitFlight /\ [][NextFlight]_vars

(***************************************************************************)
(* extract_airline, run on its own on a text and a sender                  *)
(***************************************************************************)
AirlineSegments == {
    <<"A", "I", "3", "0", "2">>, <<" ", "i", "n", "d", "i", "g", "o">>, <<"f", "l", "i", "g", "h", "t", " ", "s", "g", " ", "1", "2">>, <<" ", "A", "i", "r", " ", "I", "n", "d", "i", "a", " ">>, <<" ", "6", "E", " ", "2", "3", "4", "1">>, <<" ", "b", "o", "o", "k", "e", "d">> }

AirlineTexts == {Concat(s) : s \in SeqsUpTo(AirlineSegments, MaxSegments)}

\* values of the From header
Senders == {
    <<>>, <<"x", "@", "g", "o", "i", "n", "d", "i", "g", "o", ".", "i", "n">>, <<"x", "@", "f", "o", "o", ".", "c", "o", "m">>, <<"a", "@", "a", "i", "r", "-", "i", "n", "d", "i", "a", ".", "c", "o", "m">>,
    <<"a", "@", "m", "a", "i", "l", ".", "s", "p", "i", "c", "e", "j", "e", "t", ".", "c", "o", "m">>, <<"a", "@", "E", "m", "i", "r", "a", "t", "e", "s", ".", "c", "o", "m">> }

InitAirline ==
    /\ MainIdle
    /\ text \in AirlineTexts
    /\ pat = 1
    /\ pnr_result = <<>>
    /\ sender \in Senders
    /\ flight_result = <<>>
    /\ airport_codes = [from_code |-> <<>>, to_code |-> <<>>]
    /\ airline_result = <<>>
    /\ xpc = "sender_tier"

\* lines 386-391
CheckSender ==
    /\ xpc = "sender_tier"
    /\ \E r \in {SenderTier(sender)} :
        IF r # <<>>
        THEN /\ airline_result' = r[1]
             /\ xpc' = "returned"
        ELSE /\ xpc' = "code_tier"
             /\ UNCHANGED airline_result
    /\ UNCHANGED <<text, pat, pnr_result, sender, flight_result, airport_codes, main_vars>>

\* lines 394-398
CheckFlightCode ==
    /\ xpc = "code_tier"
    /\ flight_result' = extract_flight_number(text)
    /\ \E r \in {CodeTierOf(flight_result')} :
        IF r # <<>>
        THEN /\ airline_result' = r[1]
             /\ xpc' = "returned"
        ELSE /\ xpc' = "text_tier"
             /\ UNCHANGED airline_result
    /\ UNCHANGED <<text, pat, pnr_result, sender, airport_codes, main_vars>>

\* lines 401-406
CheckText ==
    /\ xpc = "text_tier"
    /\ \E r \in {TextTier(text)} :
        airline_result' = IF r # <<>> THEN r[1] ELSE <<>>
    /\ xpc' = "returned"
    /\ UNCHANGED <<text, pat, pnr_result, sender, flight_result, airport_codes, main_vars>>

NextAirline ==
    \/ CheckSender
    \/ CheckFlightCode
    \/ CheckText

SpecAirline == InitAirline /\ [][NextAirline]_vars

(***************************************************************************)
(* Properties of main                                                      *)
(***************************************************************************)
\* The identity of a record as the specification words it.
HasIdentity(f) ==
    Truthy(f["PNR/Booking Ref"]) \/ Truthy(f["Flight Number"]) \/ Truthy(f["Date"])

IdentityKey(f) ==
    IF Truthy(f["PNR/Booking Ref"]) THEN <<"bookingRef", f["PNR/Booking Ref"]>>
    ELSE <<"flight", f["Flight Number"], f["Date"]>>

Count(l, x) == Cardinality({k \in DOMAIN l : l[k] = x})

InRecon == pc \in {"dedup", "sort", "done"}

\* What the deduplication loop has consumed so far, and what it has produced.
ReconInput == IF pc = "dedup" THEN SubSeq(flights, 1, di - 1) ELSE named_flights

ReconOutput == IF pc = "dedup" THEN deduped ELSE flights

\* The records of inp with the key of inp[k], and the earliest of those with
\* the highest richness.
SameKey(inp, k) ==
    {m \in DOMAIN inp : HasIdentity(inp[m]) /\ IdentityKey(inp[m]) = IdentityKey(inp[k])}

Best(inp, k) ==
    CHOOSE m \in SameKey(inp, k) :
        \A n \in SameKey(inp, k) :
            \/ _richness(inp[m]) > _richness(inp[n])
            \/ (_richness(inp[m]) = _richness(inp[n]) /\ m <= n)

\* C1: after the loop has processed any prefix of its input, every identity
\* key of that prefix has exactly one record in the output, the earliest of
\* the records with the highest richness for that key.
C1_BestRecordPerKey ==
    InRecon =>
        \A k \in DOMAIN ReconInput :
            HasIdentity(ReconInput[k]) =>
                /\ Cardinality({j \in DOMAIN ReconOutput :
                        /\ HasIdentity(ReconOutput[j])
                        /\ IdentityKey(ReconOutput[j]) = IdentityKey(ReconInput[k])}) = 1
                /\ \E j \in DOMAIN ReconOutput : ReconOutput[j] = ReconInput[Best(ReconInput, k)]

\* Three records of one booking: a poor one, then two richer ones that tie;
\* the first of the two richer ones is what is left.
C1_Witness ==
    /\ pc = "sort"
    /\ Len(named_flights) = 3
    /\ SameKey(named_flights, 1) = {1, 2, 3}
    /\ _richness(named_flights[1]) < _richness(named_flights[2])
    /\ _richness(named_flights[2]) = _richness(named_flights[3])
    /\ named_flights[2] # named_flights[3]
    /\ flights = <<named_flights[2]>>

\* C2: a record without identity is appended unconditionally and stays: the
\* output holds as many copies of it as the input processed so far.
C2_NoIdentityPassThrough ==
    InRecon =>
        \A k \in DOMAIN ReconInput :
            ~HasIdentity(ReconInput[k]) =>
                Count(ReconOutput, ReconInput[k]) = Count(ReconInput, ReconInput[k])

\* Two identical records without identity around a record with one.
C2_Witness ==
    /\ pc = "done"
    /\ Len(named_flights) = 3
    /\ ~HasIdentity(named_flights[1])
    /\ named_flights[3] = named_flights[1]
    /\ HasIdentity(named_flights[2])
    /\ Count(flights, named_flights[1]) = 2

DigitVal(c) == (CHOOSE k \in DOMAIN Digits : Digits[k] = c) - 1

\* The calendar day a YYYY-MM-DD string names, as a number that grows with time.
DateNum(d) ==
    LET n(a, b) == DigitVal(d[a]) * 10 + DigitVal(d[b])
    IN  (n(1, 2) * 100 + n(3, 4)) * 10000 + n(6, 7) * 100 + n(9, 10)

Dates(l) == [k \in DOMAIN l |-> l[k]["Date"]]

\* C3: the final output is in ascending date order, records without a date
\* after all records with one.
C3_SortedByDate ==
    pc = "done" =>
        \A a, b \in DOMAIN flights :
            a < b =>
                /\ ~Truthy(flights[a]["Date"]) => ~Truthy(flights[b]["Date"])
                /\ (Truthy(flights[a]["Date"]) /\ Truthy(flights[b]["Date"])) =>
                        DateNum(flights[a]["Date"]) <= DateNum(flights[b]["Date"])

\* The example of the specification: three survivors dated 2025-03-01, "",
\* 2024-12-31, in that order before the sort.
C3_Witness ==
    /\ pc = "done"
    /\ Len(flights) = 3
    /\ Dates(named_flights) = <<Mar01, <<>>, Dec31>>
    /\ Dates(flights) = <<Dec31, Mar01, <<>>>>

\* C4: the engine (deduplication loop, then sort) run on the final output
\* returns that output.
C4_Idempotent ==
    pc = "done" => SortByDate(Dedup(flights)) = flights

\* A run in which the engine merged a record and two survivors share a date.
C4_Witness ==
    /\ pc = "done"
    /\ Len(named_flights) = 3
    /\ Len(flights) = 2
    /\ flights[1]["Date"] = flights[2]["Date"]
    /\ flights # SubSeq(named_flights, 1, 2)
    /\ flights # SubSeq(named_flights, 2, 3)

\* A subject that contains an exclusion keyword, compared letter by letter
\* without regard to case.
SubjectMatches(subject) ==
    \E n \in DOMAIN EXCLUDE_SUBJECTS :
        \E p \in 0..(Len(subject) - Len(EXCLUDE_SUBJECTS[n])) :
            \A k \in DOMAIN EXCLUDE_SUBJECTS[n] :
                LowerChar(subject[p + k]) = EXCLUDE_SUBJECTS[n][k]

\* C5: no record whose subject contains an exclusion keyword is in the final
\* output, and the output is what the run yields without those messages:
\* an excluded record neither replaces nor suppresses another record.
C5_ExcludedNeverOutput ==
    pc = "done" =>
        /\ \A k \in DOMAIN flights : ~SubjectMatches(flights[k]["Email Subject"])
        /\ flights = MainOutput(SelectSeq(messages, LAMBDA m : ~SubjectMatches(m.subject)))

\* An excluded message that carries the booking of a surviving record and
\* more fields than that record.
C5_Witness ==
    /\ pc = "done"
    /\ Len(flights) = 1
    /\ \E a, b \in DOMAIN messages :
        /\ ~messages[b].fails
        /\ SubjectMatches(messages[b].subject)
        /\ Truthy(messages[b].pnr)
        /\ messages[b].pnr = messages[a].pnr
        /\ flights[1] = DelHasName(ParseEmail(messages[a]))
        /\ _richness(ParseEmail(messages[b])) > _richness(flights[1])

\* A real signal as the specification words it.
RealSignal(f) ==
    \/ f["Flight Number"] # <<>>
    \/ f["PNR/Booking Ref"] # <<>>
    \/ (f["From"] # <<>> /\ f["To"] # <<>>)

\* C6: every record of the final output has a flight number, a booking
\* reference, or both airport codes.
C6_OutputHasRealSignal ==
    pc = "done" => \A k \in DOMAIN flights : RealSignal(flights[k])

\* A run that parsed a record without real signal (and with the passenger
\* name and an ordinary subject) and still wrote other records.
C6_Witness ==
    /\ pc = "done"
    /\ Len(flights) >= 1
    /\ \E k \in DOMAIN messages :
        /\ ~messages[k].fails
        /\ ~SubjectMatches(messages[k].subject)
        /\ messages[k].has_passenger_name
        /\ ~RealSignal(ParseEmail(messages[k]))
        /\ HasIdentity(ParseEmail(messages[k]))

\* The record r of a message is represented in the final output: by a record
\* with its identity key, or by itself when it has no identity.
Represented(r) ==
    IF HasIdentity(r)
    THEN \E j \in DOMAIN flights :
            HasIdentity(flights[j]) /\ IdentityKey(flights[j]) = IdentityKey(r)
    ELSE \E j \in DOMAIN flights : flights[j] = DelHasName(r)

\* C7 as stated: every assembled record with an ordinary subject and a real
\* signal is represented in the final output.
C7_OnlyExclusionOrSignalDrops ==
    pc = "done" =>
        \A k \in DOMAIN messages :
            (/\ ~messages[k].fails
             /\ ~SubjectMatches(messages[k].subject)
             /\ RealSignal(ParseEmail(messages[k])))
                => Represented(ParseEmail(messages[k]))

\* C7 (amended): every assembled record with an ordinary subject, a real
\* signal and a passenger name in its text is represented in the final
\* output; the passenger-name filter is the third reason for a drop.
C7_OnlyExclusionSignalOrNameDrops ==
    pc = "done" =>
        \A k \in DOMAIN messages :
            (/\ ~messages[k].fails
             /\ ~SubjectMatches(messages[k].subject)
             /\ RealSignal(ParseEmail(messages[k]))
             /\ messages[k].has_passenger_name)
                => Represented(ParseEmail(messages[k]))

\* A run with a record that passes all three filters next to one that is
\* dropped for the missing passenger name only.
C7_Witness ==
    /\ pc = "done"
    /\ \E a, b \in DOMAIN messages :
        /\ ~messages[a].fails /\ ~messages[b].fails
        /\ ~SubjectMatches(messages[a].subject) /\ ~SubjectMatches(messages[b].subject)
        /\ RealSignal(ParseEmail(messages[a])) /\ RealSignal(ParseEmail(messages[b]))
        /\ messages[a].has_passenger_name /\ ~messages[b].has_passenger_name
        /\ Represented(ParseEmail(messages[a]))
        /\ ~Represented(ParseEmail(messages[b]))

\* The position at which the key of inp[k] was first seen.
FirstSeen(inp, k) == CHOOSE m \in SameKey(inp, k) : \A n \in SameKey(inp, k) : m <= n

\* The position in inp of the record that out[j] is, for a record with identity.
Origin(inp, out, j) == CHOOSE k \in DOMAIN inp : inp[k] = out[j]

\* C8 as stated: before the sort the surviving records with identity stand
\* in the order in which their keys were first seen.
C8_FirstSeenOrder ==
    pc \in {"dedup", "sort"} =>
        \A a, b \in DOMAIN ReconOutput :
            (a < b /\ HasIdentity(ReconOutput[a]) /\ HasIdentity(ReconOutput[b])) =>
                FirstSeen(ReconInput, Origin(ReconInput, ReconOutput, a))
                    < FirstSeen(ReconInput, Origin(ReconInput, ReconOutput, b))

\* The records of inp that survive, in arrival order: those without identity
\* and, for each key, the earliest record of highest richness.
RECURSIVE SurvivorsFrom(_, _)
SurvivorsFrom(inp, k) ==
    IF k > Len(inp) THEN <<>>
    ELSE IF ~HasIdentity(inp[k]) \/ Best(inp, k) = k
    THEN <<inp[k]>> \o SurvivorsFrom(inp, k + 1)
    ELSE SurvivorsFrom(inp, k + 1)

Survivors(inp) == SurvivorsFrom(inp, 1)

OnDate(l, d) == SelectSeq(l, LAMBDA f : f["Date"] = d)

\* C8 (amended): a replacing record is appended at the end, so before the
\* sort the output is the surviving records in their own arrival order, and
\* after it the records of each date are in that order.
C8_SurvivorArrivalOrder ==
    /\ pc \in {"dedup", "sort"} => ReconOutput = Survivors(ReconInput)
    /\ pc = "done" =>
        \A d \in Range(Dates(flights)) :
            OnDate(flights, d) = OnDate(Survivors(named_flights), d)

\* A poor record of one booking, a record of another booking, then a richer
\* record of the first booking, all on one date.
C8_Witness ==
    /\ pc = "done"
    /\ Len(named_flights) = 3
    /\ SameKey(named_flights, 1) = {1, 3}
    /\ HasIdentity(named_flights[2])
    /\ _richness(named_flights[3]) > _richness(named_flights[1])
    /\ named_flights[2]["Date"] = named_flights[3]["Date"]
    /\ flights = <<named_flights[2], named_flights[3]>>

ParsedOf(msgs) == [k \in DOMAIN msgs |-> ParseEmail(msgs[k])]

Succeeding(msgs) == SelectSeq(msgs, LAMBDA m : ~m.fails)

\* C9: a message whose fetch or parse fails leaves no record, and the run
\* goes on: during the parse loop the list holds exactly the records of the
\* messages that did not fail, and the final output is the output of the run
\* on the input without the failed messages.
C9_SkipAndContinue ==
    /\ pc = "parse" => flights = ParsedOf(Succeeding(SubSeq(messages, 1, i - 1)))
    /\ pc = "done" => flights = MainOutput(Succeeding(messages))

\* A failed message first, and the record of a later message in the output.
C9_Witness ==
    /\ pc = "done"
    /\ Len(messages) >= 2
    /\ messages[1].fails
    /\ Len(flights) >= 1
    /\ flights[1] = DelHasName(ParseEmail(messages[2]))

(***************************************************************************)
(* Properties of extract_pnr                                               *)
(***************************************************************************)
\* What each of the three grammars, in the order PNR-labelled,
\* booking/confirmation-labelled and reference-labelled, captures in t:
\* <<>> for no match, else <<the capture>>.
Captures(t) == <<PnrSearch(t, 1), PnrSearch(t, 2), PnrSearch(t, 3)>>

\* The capture c of a grammar is there and, upper-cased, is no stopword.
Accepted(c) == c # <<>> /\ StrUpper(c[1]) \notin pnr_stopwords

\* The upper-cased capture of the first grammar accepted, given the captures.
FirstAccepted(cs) ==
    IF Accepted(cs[1]) THEN StrUpper(cs[1][1])
    ELSE IF Accepted(cs[2]) THEN StrUpper(cs[2][1])
    ELSE IF Accepted(cs[3]) THEN StrUpper(cs[3][1])
    ELSE <<>>

UpperAlnumChars == Range(UpperLetters) \cup Range(Digits)

UpperAlnum(s) == \A k \in DOMAIN s : s[k] \in UpperAlnumChars

\* C10: the extractor tries the three grammars in order and goes on to the
\* next one when a capture is a stopword; it returns the upper-cased capture
\* of the first grammar accepted, else the empty string.  The result is
\* never a stopword and is empty or 5 to 8 upper-case alphanumerics.
C10_PnrCascade ==
    /\ xpc = "extract_pnr" => \A n \in 1..(pat - 1) : ~Accepted(PnrSearch(text, n))
    /\ xpc = "returned" =>
        /\ \E cs \in {Captures(text)} : pnr_result = FirstAccepted(cs)
        /\ pnr_result \notin pnr_stopwords
        /\ pnr_result = <<>> \/ (Len(pnr_result) \in 5..8 /\ UpperAlnum(pnr_result))
        /\ text = <<"P", "N", "R", ":", " ", "A", "B", "C", "1", "2", "3", "4">> => pnr_result = <<"A", "B", "C", "1", "2", "3", "4">>
        /\ text = <<"P", "N", "R", ":", " ", "N", "U", "M", "B", "E", "R">> => pnr_result = <<>>

\* The first grammar captured a stopword and a later grammar gave the result,
\* which was written in lower case in the text.
C10_Witness ==
    /\ xpc = "returned"
    /\ pnr_result # <<>>
    /\ \E cs \in {Captures(text)} :
        /\ cs[1] # <<>>
        /\ StrUpper(cs[1][1]) \in pnr_stopwords
        /\ cs[2] = <<StrLower(pnr_result)>>

(***************************************************************************)
(* Properties of extract_airport_codes                                     *)
(***************************************************************************)
\* At p of t stand three upper-case letters with no word character next to
\* them on either side.
UpperTokenAt(t, p) ==
    /\ p + 2 <= Len(t)
    /\ \A k \in 0..2 : t[p + k] \in UpperChars
    /\ p = 1 \/ t[p - 1] \notin WordChars
    /\ p + 3 > Len(t) \/ t[p + 3] \notin WordChars

\* The fully upper-case 3-letter tokens of t that are no stopwords.
ValidTokens(t) ==
    {SubSeq(t, p, p + 2) : p \in {q \in 1..Len(t) : UpperTokenAt(t, q)}}
        \ AIRPORT_STOPWORDS

\* C11: each code the airport-pair extractor holds, after the keyword pass
\* of its side and after the route-pattern fallback, is empty or a fully
\* upper-case 3-letter token of the text that is no stopword; so a text
\* without such a token gives ("", "").
C11_AirportCodesValid ==
    /\ xpc \in {"to_pass", "route", "returned"} =>
        airport_codes.from_code \in {<<>>} \cup ValidTokens(text)
    /\ xpc \in {"route", "returned"} =>
        airport_codes.to_code \in {<<>>} \cup ValidTokens(text)
    /\ xpc = "returned" /\ ValidTokens(text) = {} =>
        airport_codes = [from_code |-> <<>>, to_code |-> <<>>]

\* The extractor returned two codes, one of them found by the route pattern,
\* from a text that also holds an upper-case stopword.
C11_Witness ==
    /\ xpc = "returned"
    /\ airport_codes.from_code # <<>>
    /\ airport_codes.to_code # <<>>
    /\ KeywordPass(text, "to") = <<>>
    /\ \E p \in 1..Len(text) :
        UpperTokenAt(text, p) /\ SubSeq(text, p, p + 2) \in AIRPORT_STOPWORDS

\* The directional keywords of the two sides.
FromKeywords == {<<"f", "r", "o", "m">>, <<"d", "e", "p", "a", "r", "t", "u", "r", "e">>, <<"d", "e", "p", "a", "r", "t">>, <<"o", "r", "i", "g", "i", "n">>}

ToKeywords == {<<"t", "o">>, <<"a", "r", "r", "i", "v", "a", "l">>, <<"a", "r", "r", "i", "v", "e">>, <<"d", "e", "s", "t", "i", "n", "a", "t", "i", "o", "n">>}

\* Where an occurrence at p of one of the keywords kws ends (the position
\* after its last character), in any letter case.
KeywordEnds(t, kws, p) ==
    {p + Len(kw) : kw \in {k \in kws : /\ p + Len(k) - 1 <= Len(t)
                                       /\ StrLower(SubSeq(t, p, p + Len(k) - 1)) = k}}

\* Where a valid token begins at most 30 characters after position e.
NearTokens(t, e) ==
    {q \in e..(e + 30) : UpperTokenAt(t, q) /\ SubSeq(t, q, q + 2) \notin AIRPORT_STOPWORDS}

\* Where a valid token begins that follows a keyword occurrence at p.
TokensAfterKeyword(t, kws, p) == UNION {NearTokens(t, e) : e \in KeywordEnds(t, kws, p)}

\* The keyword occurrences that are followed within 30 characters by a
\* valid token.
KeywordsWithToken(t, kws) == {p \in 1..Len(t) : TokensAfterKeyword(t, kws, p) # {}}

\* The token of the first such keyword occurrence: the nearest valid one.
TokenOfFirstKeyword(t, kws) ==
    LET p == Leftmost(KeywordsWithToken(t, kws))
        q == Leftmost(TokensAfterKeyword(t, kws, p))
    IN  SubSeq(t, q, q + 2)

\* C13: after the keyword pass of a side, if some occurrence of a keyword of
\* that side is followed within 30 characters by a valid token, the side's
\* code is the token of the first such occurrence, whatever other 3-letter
\* words (lower-case words, upper-case stopwords) stand in between.
C13_FirstKeywordWithValidTokenWins ==
    /\ xpc \in {"to_pass", "route"} /\ KeywordsWithToken(text, FromKeywords) # {} =>
        airport_codes.from_code = TokenOfFirstKeyword(text, FromKeywords)
    /\ xpc = "route" /\ KeywordsWithToken(text, ToKeywords) # {} =>
        airport_codes.to_code = TokenOfFirstKeyword(text, ToKeywords)

(***************************************************************************)
(* Properties of extract_flight_number                                     *)
(***************************************************************************)
\* space, tab or newline
IsWhitespace(c) == c \in {" ", "\t", "\n"}

\* s is two alphanumeric characters and then one to four digits, and
\* nothing else
CodeThenDigits(s) ==
    /\ Len(s) \in 3..6
    /\ s[1] \in AlnumChars /\ s[2] \in AlnumChars
    /\ \A k \in 3..Len(s) : s[k] \in DigitChars

\* C12: the result of the flight-number extractor, from the primary cascade
\* or from the "flight"/"flt" context fallback, is empty or the 2-character
\* code followed by its 1 to 4 digits, with no space, tab or newline left
\* between them; "Flight AI 302 confirmed" gives "AI302".
C12_FlightNumberNoWhitespace ==
    xpc = "returned" =>
        /\ flight_result = <<>>
            \/ (CodeThenDigits(flight_result)
                /\ \A k \in DOMAIN flight_result : ~IsWhitespace(flight_result[k]))
        /\ text = <<"F", "l", "i", "g", "h", "t", " ", "A", "I", " ", "3", "0", "2", " ", "c", "o", "n", "f", "i", "r", "m", "e", "d">> => flight_result = <<"A", "I", "3", "0", "2">>

(***************************************************************************)
(* Properties of extract_airline                                           *)
(***************************************************************************)
\* The airlines of the domain-table keys that the domain d contains.
DomainHits(d) ==
    {KNOWN_AIRLINES[k][2] : k \in {j \in DOMAIN KNOWN_AIRLINES : StrIn(KNOWN_AIRLINES[j][1], d)}}

\* The airlines of the domain-table keys that the sender's email domain
\* contains; the domain is what follows the first "@", in lower case and
\* without its dots.
SenderHits(s) == IF DomainSearch(s) = <<>> THEN {} ELSE DomainHits(SenderDomain(s))

\* The airlines of the IATA table for the 2-character prefix of a flight
\* number.
CodeHits(flight_num) ==
    IF Len(flight_num) < 2 THEN {}
    ELSE {AIRLINE_CODES[k][2] : k \in {j \in DOMAIN AIRLINE_CODES :
                                           AIRLINE_CODES[j][1] = SubSeq(flight_num, 1, 2)}}

\* The display names of the domain table, in lower case.
LowerNames == [k \in DOMAIN KNOWN_AIRLINES |-> Tuple(StrLower(KNOWN_AIRLINES[k][2]))]

\* The airlines whose key or display name is in the lower-case text tl.
NamedAirlines(tl) ==
    {KNOWN_AIRLINES[k][2] : k \in {j \in DOMAIN KNOWN_AIRLINES :
        \/ StrIn(KNOWN_AIRLINES[j][1], tl)
        \/ StrIn(LowerNames[j], tl)}}

\* The airlines whose key or display name is in the text, in any letter case.
TextHits(t) == NamedAirlines(Tuple(StrLower(t)))

\* What the three tiers find, as <<sender hits, code hits, text hits>>.
TierHits(t, s) == <<SenderHits(s), CodeHits(extract_flight_number(t)), TextHits(t)>>

\* The result r is one of the highest tier that hits, and empty exactly
\* when no tier hits.
FromHighestTier(r, hits) ==
    /\ hits[1] # {} => r \in hits[1]
    /\ hits[1] = {} /\ hits[2] # {} => r \in hits[2]
    /\ hits[1] = {} /\ hits[2] = {} /\ hits[3] # {} => r \in hits[3]
    /\ r = <<>> <=> (hits[1] = {} /\ hits[2] = {} /\ hits[3] = {})

\* C14: the airline extractor is a strict three-tier cascade: a sender
\* domain that contains a key of the domain table decides the result
\* whatever the flight number and the text are; the IATA-prefix tier is
\* consulted only when the sender tier misses, the free-text tier only when
\* both miss; the result is empty exactly when all three miss.
C14_AirlineCascade ==
    xpc \in {"code_tier", "text_tier", "returned"} =>
        \E hits \in {TierHits(text, sender)} :
            /\ xpc = "code_tier" => hits[1] = {}
            /\ xpc = "text_tier" => hits[1] = {} /\ hits[2] = {}
            /\ xpc = "returned" => FromHighestTier(airline_result, hits)

\* The sender tier decided, against an IATA prefix and a text that name
\* other airlines.
C14_Witness ==
    /\ xpc = "returned"
    /\ \E hits \in {TierHits(text, sender)} :
        /\ airline_result \in hits[1]
        /\ hits[2] # {} /\ hits[2] \cap hits[1] = {}
        /\ hits[3] # {} /\ hits[3] \cap hits[1] = {}

(***************************************************************************)
(* Properties of the flight date                                           *)
(***************************************************************************)
\* The flightDate of the record of message m: what the flight-date
\* extractor found, else the received date.
FlightDateOf(m) == IF m.flight_date # <<>> THEN m.flight_date ELSE m.email_date

\* The number of the six data fields of f that are not empty, flightDate
\* among them.
Score(f) ==
    Cardinality({k \in {"Date", "Airline", "Flight Number", "From", "To", "PNR/Booking Ref"} :
                    f[k] # <<>>})

\* C15: the flightDate of an assembled record is the extracted flight date
\* when there is one and else the received date, so it is empty only when
\* both are; and this flightDate is what the identity key (flightNumber,
\* flightDate), the richness score and the final sort use: the output holds
\* no two records without booking reference that agree on flight number and
\* flightDate, the record kept for a key scores at least as high as every
\* record of that key, and the output is in the order of flightDate, empty
\* last.
C15_FlightDateFallback ==
    /\ pc = "parse" =>
        \E ms \in {Succeeding(SubSeq(messages, 1, i - 1))} :
            /\ Len(flights) = Len(ms)
            /\ \A k \in DOMAIN ms :
                /\ flights[k]["Date"] = FlightDateOf(ms[k])
                /\ flights[k]["Date"] = <<>> <=>
                        (ms[k].flight_date = <<>> /\ ms[k].email_date = <<>>)
    /\ pc = "done" =>
        /\ \A a, b \in DOMAIN flights :
            (/\ a # b
             /\ flights[a]["PNR/Booking Ref"] = <<>> /\ flights[b]["PNR/Booking Ref"] = <<>>
             /\ HasIdentity(flights[a]) /\ HasIdentity(flights[b]))
                => <<flights[a]["Flight Number"], flights[a]["Date"]>>
                        # <<flights[b]["Flight Number"], flights[b]["Date"]>>
        /\ \A k \in DOMAIN named_flights :
            HasIdentity(named_flights[k]) =>
                \E j \in DOMAIN flights :
                    /\ HasIdentity(flights[j])
                    /\ IdentityKey(flights[j]) = IdentityKey(named_flights[k])
                    /\ Score(flights[j]) >= Score(named_flights[k])
        /\ \A a, b \in DOMAIN flights :
            a < b =>
                \/ flights[b]["Date"] = <<>>
                \/ (/\ flights[a]["Date"] # <<>>
                    /\ DateNum(flights[a]["Date"]) <= DateNum(flights[b]["Date"]))

\* Two messages of one flight without booking reference: one has no flight
\* date in its text and was received on the day the other one names as the
\* flight date; they were merged into one record with that date.
C15_Witness ==
    /\ pc = "done"
    /\ Len(named_flights) = 2
    /\ Len(flights) = 1
    /\ \E a, b \in DOMAIN messages :
        /\ a # b
        /\ messages[a].flight_date = <<>>
        /\ messages[a].email_date # <<>>
        /\ messages[b].flight_date = messages[a].email_date
        /\ messages[a].pnr = <<>> /\ messages[b].pnr = <<>>
        /\ messages[a].flight_number # <<>>
        /\ messages[a].flight_number = messages[b].flight_number
        /\ flights[1]["Date"] = messages[a].email_date
====
